---- MODULE Spec2Model ----
(***************************************************************************)
(* Model of kb3cat/pa-airport-status: the scripts that build and refresh   *)
(* docs/status.json.                                                       *)
(*                                                                         *)
(*   scripts/update_status.py         METAR text classifier + refresher    *)
(*   scripts/update_metar.py          registry builder + METAR refresher   *)
(*   scripts/build_status_json_pa.py  registry builder                     *)
(*   scripts/fetch_faa.py             FAA closures/impacts + categories    *)
(*                                                                         *)
(* Texts are sequences of one-character strings, so that the regular       *)
(* expressions of the scripts are computed position by position.           *)
(***************************************************************************)
EXTENDS Bags, Integers, Sequences, FiniteSets, TLC

VARIABLES
    metar,      \* update_status.flight_category_from_metar: its argument
    fcres,      \* ... and what the call produced (a return value or an exception)
    file,       \* docs/status.json
    remote,     \* what the remote endpoints serve
    runs,       \* the bag of the runs in flight: what each has read, where it stands
    last,       \* the run that ended last: what it read and how it ended
    clock,      \* the time, in ticks of the scripts' timestamps
    net,        \* what an endpoint answers to the GETs still to come
    call        \* the most recent remote fetch: who fetched, attempts, result

vars == <<metar, fcres, file, remote, runs, last, clock, net, call>>

(***************************************************************************)
(* Bounds of the model.                                                    *)
(***************************************************************************)
\* Longest observation text drawn, in whitespace-separated groups.
MaxTokens == 3
\* Longest station feed drawn, in rows.
MaxRows == 2
\* Longest FAA document drawn, in Airport elements.
MaxEvents == 2
\* The clock stops advancing at MaxClock.
MaxClock == 1
\* Longest sequence of answers of an endpoint drawn.
MaxAnswers == 4
\* The most runs in flight at a time.
MaxRuns == 2

(***************************************************************************)
(* Characters and the character classes of Python's re module.             *)
(***************************************************************************)
Digits == {"0", "1", "2", "3", "4", "5", "6", "7", "8", "9"}

\* str.isalpha(): the letters of ASCII and of Latin-1. Python knows letters
\* and digits beyond Latin-1, which a string of this module cannot hold.
Letters ==
    {"A", "B", "C", "D", "E", "F", "G", "H", "I", "J", "K", "L", "M", "N",
     "O", "P", "Q", "R", "S", "T", "U", "V", "W", "X", "Y", "Z", "a", "b",
     "c", "d", "e", "f", "g", "h", "i", "j", "k", "l", "m", "n", "o", "p",
     "q", "r", "s", "t", "u", "v", "w", "x", "y", "z", "ª", "µ", "º", "À",
     "Á", "Â", "Ã", "Ä", "Å", "Æ", "Ç", "È", "É", "Ê", "Ë", "Ì", "Í", "Î",
     "Ï", "Ð", "Ñ", "Ò", "Ó", "Ô", "Õ", "Ö", "Ø", "Ù", "Ú", "Û", "Ü", "Ý",
     "Þ", "ß", "à", "á", "â", "ã", "ä", "å", "æ", "ç", "è", "é", "ê", "ë",
     "ì", "í", "î", "ï", "ð", "ñ", "ò", "ó", "ô", "õ", "ö", "ø", "ù", "ú",
     "û", "ü", "ý", "þ", "ÿ"}

\* \w: letters, digits, the other numerals of Latin-1, and "_".
IsWord(c) == c \in Digits \cup Letters \cup {"_", "²", "³", "¹", "¼", "½", "¾"}

\* \s and the blanks of str.strip(): str.isspace(). In code point order
\* U+0009 to U+000D (tab, line feed, vertical tab, form feed, carriage
\* return), U+001C to U+001F (the four separators), the space, U+0085 (next
\* line) and U+00A0 (no-break space).
IsSpace(c) ==
    c \in {"\t", "\n", "", "\f", "\r", "", "", "", "", " ", "", " "}

\* int() of one decimal digit
DigitVal(c) ==
    CASE c = "0" -> 0 [] c = "1" -> 1 [] c = "2" -> 2 [] c = "3" -> 3
      [] c = "4" -> 4 [] c = "5" -> 5 [] c = "6" -> 6 [] c = "7" -> 7
      [] c = "8" -> 8 [] c = "9" -> 9

DigitChar(k) ==
    CASE k = 0 -> "0" [] k = 1 -> "1" [] k = 2 -> "2" [] k = 3 -> "3"
      [] k = 4 -> "4" [] k = 5 -> "5" [] k = 6 -> "6" [] k = 7 -> "7"
      [] k = 8 -> "8" [] k = 9 -> "9"

\* Whether position i of s (1-based) holds a word character; positions outside
\* the text do not.
WordAt(s, i) == i \in 1..Len(s) /\ IsWord(s[i])

\* \b just before position i: exactly one side is a word character.
BoundaryAt(s, i) == WordAt(s, i - 1) # WordAt(s, i)

\* The position after the longest run of digits that starts at i (i itself
\* when s[i] is no digit): what a greedy \d+ consumes when the next item of
\* the pattern cannot match a digit.
RECURSIVE DigitRunEnd(_, _)
DigitRunEnd(s, i) ==
    IF i \in 1..Len(s) /\ s[i] \in Digits THEN DigitRunEnd(s, i + 1) ELSE i

\* The same for \s+.
RECURSIVE SpaceRunEnd(_, _)
SpaceRunEnd(s, i) ==
    IF i \in 1..Len(s) /\ IsSpace(s[i]) THEN SpaceRunEnd(s, i + 1) ELSE i

\* The literal lit at position i of s.
LitAt(s, i, lit) ==
    /\ i >= 1
    /\ i + Len(lit) - 1 <= Len(s)
    /\ \A k \in 1..Len(lit) : s[i + k - 1] = lit[k]

\* int()/float() of the digits s[i..j-1].
RECURSIVE IntOf(_, _, _)
IntOf(s, i, j) ==
    IF j <= i THEN 0 ELSE 10 * IntOf(s, i, j - 1) + DigitVal(s[j - 1])

\* str() of a natural number, as characters.
RECURSIVE IntToChars(_)
IntToChars(n) ==
    IF n < 10 THEN <<DigitChar(n)>>
    ELSE IntToChars(n \div 10) \o <<DigitChar(n % 10)>>

Min(S) == CHOOSE x \in S : \A y \in S : x <= y

RECURSIVE Pow10(_)
Pow10(k) == IF k <= 0 THEN 1 ELSE 10 * Pow10(k - 1)

(***************************************************************************)
(* update_status.py: the parsers of a raw observation.                     *)
(***************************************************************************)
SM == <<"S", "M">>

\* re.search(r"\b(\d+)\s+(\d+)/(\d+)SM\b") tried at position i.
MixedAt(s, i) ==
    LET a == DigitRunEnd(s, i)
        b == SpaceRunEnd(s, a)
        c == DigitRunEnd(s, b)
        d == DigitRunEnd(s, c + 1)
    IN  IF /\ s[i] \in Digits
           /\ BoundaryAt(s, i)
           /\ b > a /\ c > b
           /\ LitAt(s, c, <<"/">>)
           /\ d > c + 1
           /\ LitAt(s, d, SM)
           /\ BoundaryAt(s, d + 2)
        THEN [ok |-> TRUE, whole |-> IntOf(s, i, a), num |-> IntOf(s, b, c),
              den |-> IntOf(s, c + 1, d)]
        ELSE [ok |-> FALSE, whole |-> 0, num |-> 0, den |-> 0]

\* re.search(r"\b(\d+)/(\d+)SM\b") tried at position i.
FractionAt(s, i) ==
    LET a == DigitRunEnd(s, i)
        d == DigitRunEnd(s, a + 1)
    IN  IF /\ s[i] \in Digits
           /\ BoundaryAt(s, i)
           /\ LitAt(s, a, <<"/">>)
           /\ d > a + 1
           /\ LitAt(s, d, SM)
           /\ BoundaryAt(s, d + 2)
        THEN [ok |-> TRUE, num |-> IntOf(s, i, a), den |-> IntOf(s, a + 1, d)]
        ELSE [ok |-> FALSE, num |-> 0, den |-> 0]

\* re.search(r"\b(\d+)SM\b") tried at position i.
WholeAt(s, i) ==
    LET a == DigitRunEnd(s, i)
    IN  IF /\ s[i] \in Digits
           /\ BoundaryAt(s, i)
           /\ LitAt(s, a, SM)
           /\ BoundaryAt(s, a + 2)
        THEN [ok |-> TRUE, whole |-> IntOf(s, i, a)]
        ELSE [ok |-> FALSE, whole |-> 0]

\* A parsed quantity. A visibility is the exact fraction n/d of what the code
\* computes in floats; a ceiling is n feet. kind is "none" for Python's None
\* and "raise" when the computation raises ZeroDivisionError. The visibility
\* of the mixed form also holds its whole miles: the code adds them to the
\* quotient, a second operation in floats.
NoValue == [kind |-> "none", n |-> 0, d |-> 1]
Raised == [kind |-> "raise", n |-> 0, d |-> 1]
Value(n, d) == [kind |-> "val", n |-> n, d |-> d]

\* float(a) / float(b)
Divide(a, b) == IF b = 0 THEN Raised ELSE Value(a, b)

\* parse_visibility_sm: the three patterns in the code's order, each taking
\* its leftmost match.
parse_visibility_sm(s) ==
    LET mixed == {i \in 1..Len(s) : MixedAt(s, i).ok}
        frac  == {i \in 1..Len(s) : FractionAt(s, i).ok}
        whole == {i \in 1..Len(s) : WholeAt(s, i).ok}
    IN  IF mixed # {}
        THEN LET m == MixedAt(s, Min(mixed))
                 q == Divide(m.num, m.den)
             IN  IF q.kind = "raise" THEN Raised
                 ELSE [kind |-> "val", n |-> m.whole * q.d + q.n, d |-> q.d,
                       whole |-> m.whole]
        ELSE IF frac # {}
        THEN LET m == FractionAt(s, Min(frac))
             IN  Divide(m.num, m.den)
        ELSE IF whole # {}
        THEN Value(WholeAt(s, Min(whole)).whole, 1)
        ELSE NoValue

\* One match of re.findall(r"\b(VV|BKN|OVC)(\d{3})\b") at position i: the
\* position of its three digits, 0 when there is no match at i.
LayerAt(s, i) ==
    LET after(lit) ==
            IF /\ s[i] = lit[1]
               /\ BoundaryAt(s, i)
               /\ LitAt(s, i, lit)
               /\ DigitRunEnd(s, i + Len(lit)) >= i + Len(lit) + 3
               /\ BoundaryAt(s, i + Len(lit) + 3)
            THEN i + Len(lit) ELSE 0
    IN  IF after(<<"V", "V">>) # 0 THEN after(<<"V", "V">>)
        ELSE IF after(<<"B", "K", "N">>) # 0 THEN after(<<"B", "K", "N">>)
        ELSE after(<<"O", "V", "C">>)

\* parse_ceiling_ft_agl: the lowest of the matched layers, in feet.
parse_ceiling_ft_agl(s) ==
    LET layers == {i \in 1..Len(s) : LayerAt(s, i) # 0}
        vals   == {IntOf(s, LayerAt(s, i), LayerAt(s, i) + 3) * 100 : i \in layers}
    IN  IF layers = {} THEN NoValue ELSE Value(Min(vals), 1)

\* parse_metar_time_utc: re.search(r"\b(\d{2})(\d{2})(\d{2})Z\b"), returned as
\* "DD HH:MMZ", or "" without a match.
TimeAt(s, i) ==
    /\ s[i] \in Digits
    /\ BoundaryAt(s, i)
    /\ DigitRunEnd(s, i) = i + 6
    /\ LitAt(s, i + 6, <<"Z">>)
    /\ BoundaryAt(s, i + 7)

parse_metar_time_utc(s) ==
    LET hits == {i \in 1..Len(s) : TimeAt(s, i)}
    IN  IF hits = {} THEN <<>>
        ELSE LET i == Min(hits)
             IN  <<s[i], s[i + 1], " ", s[i + 2], s[i + 3], ":", s[i + 4], s[i + 5], "Z">>

(***************************************************************************)
(* Python's float arithmetic and format(x, "g").                           *)
(*                                                                         *)
(* A visibility is the float x = float(w) + float(n) / float(d), w being 0 *)
(* where the code only divides. The model holds the exact q = w + n/d and  *)
(* works out, where it matters, on which side of q the float x lies. It    *)
(* matters only where q is exactly half-way between two texts of six       *)
(* digits: for d below 2^31 / 10, the range of this arithmetic, x is       *)
(* nearer to q than q is to any half-way point it does not sit on.         *)
(***************************************************************************)
\* The first k binary digits of r/d after the point (r < d), and what is
\* left: r/d = 0.b1...bk + rem / (d * 2^k).
RECURSIVE BinaryFraction(_, _, _, _)
BinaryFraction(r, d, k, bits) ==
    IF k = 0 THEN [bits |-> bits, rem |-> r]
    ELSE BinaryFraction((2 * r) % d, d, k - 1, Append(bits, (2 * r) \div d))

\* The binary digits of a natural number, the highest first; none for 0.
RECURSIVE BitsOfNat(_)
BitsOfNat(n) == IF n = 0 THEN <<>> ELSE BitsOfNat(n \div 2) \o <<n % 2>>

\* The binary digits of a number plus one.
RECURSIVE Increment(_)
Increment(bits) ==
    IF bits = <<>> THEN <<1>>
    ELSE IF bits[Len(bits)] = 0 THEN SubSeq(bits, 1, Len(bits) - 1) \o <<1>>
    ELSE Increment(SubSeq(bits, 1, Len(bits) - 1)) \o <<0>>

\* Where the float x = float(w) + float(n) / float(d) lies: 1 when x is above
\* the exact q = w + n/d, -1 when it is below, 0 when x = q. Both operations
\* round to the nearest float of 53 binary digits, ties to even. The steps,
\* each handing its result to the next: lead, the first 31 binary digits of
\* the quotient's fraction, z of them zeros before the first one; fr, the
\* quotient of t digits after the point, rounded up when c; S0 and S, the sum
\* of w and the quotient before and after that rounding, in units of 2^-t;
\* the float keeps the 53 highest digits of S, dropping g; X is x and Q is
\* q rounded down, in units of 2^(g-t).
FloatSide(w, n, d) ==
    LET Above(X, Q) ==
            \/ Len(X) > Len(Q)
            \/ /\ Len(X) = Len(Q)
               /\ \E i \in 1..Len(X) : /\ X[i] > Q[i]
                                       /\ \A j \in 1..(i - 1) : X[j] = Q[j]
        Kept(S, g, top) ==
            IF /\ g > 0
               /\ S[Len(S) - g + 1] = 1
               /\ \/ \E i \in (Len(S) - g + 2)..Len(S) : S[i] = 1
                  \/ top[Len(top)] = 1
            THEN Increment(top) ELSE top
        Compared(S0, S, g) ==
            IF Above(Kept(S, g, SubSeq(S, 1, Len(S) - g)), SubSeq(S0, 1, Len(S0) - g))
            THEN 1 ELSE -1
        Added(S0, S) == Compared(S0, S, IF Len(S) > 53 THEN Len(S) - 53 ELSE 0)
        Quotient(S0, c) == Added(S0, IF c THEN Increment(S0) ELSE S0)
        Divided(fr, skip, t) ==
            Quotient(BitsOfNat(w + n \div d) \o SubSeq(fr.bits, skip + 1, t),
                     2 * fr.rem > d)
        Scaled(z, t) ==
            Divided(BinaryFraction(n % d, d, t, <<>>),
                    IF w + n \div d = 0 THEN z ELSE 0, t)
        Leading(z) ==
            Scaled(z, IF n \div d > 0 THEN 53 - Len(BitsOfNat(n \div d)) ELSE 53 + z)
        Side(lead) ==
            IF lead.rem = 0 THEN 0
            ELSE Leading(Min({i \in 1..31 : lead.bits[i] = 1}) - 1)
    IN  Side(BinaryFraction(n % d, d, 31, <<>>))

\* n/d >= 10^e
AtLeastPow10(n, d, e) ==
    IF e >= 0 THEN e <= 9 /\ n \div Pow10(e) >= d ELSE n * Pow10(-e) >= d

\* The decimal exponent of n/d > 0: the e with 10^e <= n/d < 10^(e+1),
\* searched from e upwards when n/d >= 10^e and downwards otherwise.
RECURSIVE ExponentFrom(_, _, _)
ExponentFrom(n, d, e) ==
    IF ~AtLeastPow10(n, d, e) THEN ExponentFrom(n, d, e - 1)
    ELSE IF AtLeastPow10(n, d, e + 1) THEN ExponentFrom(n, d, e + 1)
    ELSE e

\* k more decimal digits of the quotient q with remainder r of a division
\* by d.
RECURSIVE LongDivision(_, _, _, _)
LongDivision(q, r, d, k) ==
    IF k = 0 THEN [q |-> q, r |-> r, d |-> d]
    ELSE LongDivision(10 * q + (10 * r) \div d, (10 * r) % d, d, k - 1)

RECURSIVE StripTrailingZeros(_)
StripTrailingZeros(cs) ==
    IF cs # <<>> /\ cs[Len(cs)] = "0"
    THEN StripTrailingZeros(SubSeq(cs, 1, Len(cs) - 1))
    ELSE cs

\* "%g" of the float x = float(w) + float(n) / float(d): six significant
\* digits, trailing zeros removed, exponent form when the decimal exponent is
\* below -4 or at least 6. six: the first six digits of q = w + n/d, with what
\* the division leaves. x rounds as q does, except where q is half-way: there
\* the side of x decides, and x = q rounds to the even digit.
FormatSum(w, n, d) ==
    LET point(ip, fp) ==
            IF StripTrailingZeros(fp) = <<>> THEN ip
            ELSE ip \o <<".">> \o StripTrailingZeros(fp)
        Text(e, digs, ae) ==
            IF e < -4 \/ e >= 6
            THEN point(SubSeq(digs, 1, 1), SubSeq(digs, 2, 6))
                 \o <<"e", IF e < 0 THEN "-" ELSE "+">>
                 \o (IF ae < 10 THEN <<"0">> ELSE <<>>) \o IntToChars(ae)
            ELSE IF e >= 0
            THEN point(SubSeq(digs, 1, e + 1), SubSeq(digs, e + 2, 6))
            ELSE point(<<"0">>, [i \in 1..(-e - 1) |-> "0"] \o digs)
        Placed(e, digs) == Text(e, digs, IF e < 0 THEN -e ELSE e)
        Carried(e0, scaled, carry) ==
            Placed(IF carry THEN e0 + 1 ELSE e0,
                   IntToChars(IF carry THEN scaled \div 10 ELSE scaled))
        Tie(side, q) == side = 1 \/ (side = 0 /\ q % 2 = 1)
        Rounded(e0, scaled) == Carried(e0, scaled, scaled >= Pow10(6))
        Six(e0, six) ==
            Rounded(e0, IF \/ six.r > six.d - six.r
                           \/ /\ six.r = six.d - six.r
                              /\ Tie(FloatSide(w, n, d), six.q)
                        THEN six.q + 1 ELSE six.q)
        Exponent(e0) ==
            Six(e0, IF e0 > 5
                    THEN [q |-> (w * d + n) \div (d * Pow10(e0 - 5)),
                          r |-> (w * d + n) % (d * Pow10(e0 - 5)),
                          d |-> d * Pow10(e0 - 5)]
                    ELSE LongDivision((w * d + n) \div d, (w * d + n) % d, d, 5 - e0))
    IN  IF w * d + n = 0 THEN <<"0">>
        ELSE Exponent(ExponentFrom(w * d + n, d, 0))

\* "%g" of the float float(n) / float(d).
FormatG(n, d) == FormatSum(0, n, d)

(***************************************************************************)
(* update_status.flight_category_from_metar                                *)
(***************************************************************************)
\* ReasonText with the two appends in the other order: the visibility first.
ReasonText_VisFirst(vis, ceil) ==
    LET c == IF ceil.kind = "val"
             THEN <<<<"c", "e", "i", "l", "i", "n", "g", " ">> \o IntToChars(ceil.n) \o <<"f", "t">>>> ELSE <<>>
        v == IF vis.kind = "val"
             THEN <<<<"v", "i", "s", " ">>
                    \o (IF "whole" \in DOMAIN vis
                        THEN FormatSum(vis.whole, vis.n - vis.whole * vis.d, vis.d)
                        ELSE FormatG(vis.n, vis.d))
                    \o SM>>
             ELSE <<>>
        join(r) ==
            IF Len(r) = 0 THEN <<>>
            ELSE IF Len(r) = 1 THEN r[1]
            ELSE r[1] \o <<",", " ">> \o r[2]
    IN  join(v \o c)

\* The reason text of a non-VFR category: ", ".join(r).
ReasonText(vis, ceil) ==
    LET c == IF ceil.kind = "val"
             THEN <<<<"c", "e", "i", "l", "i", "n", "g", " ">> \o IntToChars(ceil.n) \o <<"f", "t">>>> ELSE <<>>
        v == IF vis.kind = "val"
             THEN <<<<"v", "i", "s", " ">>
                    \o (IF "whole" \in DOMAIN vis
                        THEN FormatSum(vis.whole, vis.n - vis.whole * vis.d, vis.d)
                        ELSE FormatG(vis.n, vis.d))
                    \o SM>>
             ELSE <<>>
        join(r) ==
            IF Len(r) = 0 THEN <<>>
            ELSE IF Len(r) = 1 THEN r[1]
            ELSE r[1] \o <<",", " ">> \o r[2]
    IN  join(c \o v)

\* What a call produces: a returned (category, reason), or an exception.
Returned(cat, reason) ==
    [outcome |-> "return", cat |-> cat, reason |-> reason, exc |-> ""]
Raise(exc) == [outcome |-> "raise", cat |-> "", reason |-> <<>>, exc |-> exc]
NotCalled == [outcome |-> "none", cat |-> "", reason |-> <<>>, exc |-> ""]

\* if (ceil is not None and ceil < 500) or (vis is not None and vis < 1.0)
IsLIFR(vis, ceil) ==
    \/ ceil.kind = "val" /\ ceil.n < 500
    \/ vis.kind = "val" /\ vis.n < vis.d

\* if (ceil is not None and 500 <= ceil < 1000) or (vis is not None and 1.0 <= vis < 3.0)
IsIFR(vis, ceil) ==
    \/ ceil.kind = "val" /\ 500 <= ceil.n /\ ceil.n < 1000
    \/ vis.kind = "val" /\ vis.d <= vis.n /\ vis.n < 3 * vis.d

\* IsMVFR with the visibility band closed at the wrong end: 3.0 <= vis < 5.0.
IsMVFR_OpenAtFive(vis, ceil) ==
    \/ ceil.kind = "val" /\ 1000 <= ceil.n /\ ceil.n < 3000
    \/ vis.kind = "val" /\ 3 * vis.d <= vis.n /\ vis.n < 5 * vis.d

\* if (ceil is not None and 1000 <= ceil < 3000) or (vis is not None and 3.0 <= vis <= 5.0)
IsMVFR(vis, ceil) ==
    \/ ceil.kind = "val" /\ 1000 <= ceil.n /\ ceil.n < 3000
    \/ vis.kind = "val" /\ 3 * vis.d <= vis.n /\ vis.n <= 5 * vis.d

\* The body of flight_category_from_metar once vis and ceil are parsed.
Categorise(vis, ceil) ==
    IF vis.kind = "raise" THEN Raise("ZeroDivisionError")
    ELSE IF vis.kind = "none" /\ ceil.kind = "none" THEN Returned("UNK", <<>>)
    ELSE IF IsLIFR(vis, ceil) THEN Returned("LIFR", ReasonText(vis, ceil))
    ELSE IF IsIFR(vis, ceil) THEN Returned("IFR", ReasonText(vis, ceil))
    ELSE IF IsMVFR(vis, ceil) THEN Returned("MVFR", ReasonText(vis, ceil))
    ELSE Returned("VFR", <<>>)

flight_category_from_metar(s) ==
    Categorise(parse_visibility_sm(s), parse_ceiling_ft_agl(s))

(***************************************************************************)
(* The observation texts the classifier is run on: every text of at most   *)
(* MaxTokens groups of the vocabulary, joined by single spaces, and the    *)
(* observation "KMDT 270551Z 01008KT 2SM BR OVC008 06/04 A3012".           *)
(***************************************************************************)
Vocabulary ==
    { <<"K", "M", "D", "T">>,
      <<"2", "7", "0", "5", "5", "1", "Z">>,
      <<"1">>,
      <<"1", "/", "2", "S", "M">>,
      <<"1", "S", "M">>,
      <<"3", "S", "M">>,
      <<"5", "S", "M">>,
      <<"6", "S", "M">>,
      <<"1", "/", "0", "S", "M">>,
      <<"M", "1", "/", "4", "S", "M">>,
      <<"V", "V", "0", "0", "4">>,
      <<"B", "K", "N", "0", "0", "5">>,
      <<"O", "V", "C", "0", "1", "0">>,
      <<"O", "V", "C", "0", "3", "0">>,
      <<"S", "C", "T", "0", "0", "3">>,
      <<"B", "K", "N", "0", "0", "3", "C", "B">> }

RECURSIVE Join(_)
Join(ts) ==
    IF Len(ts) = 0 THEN <<>>
    ELSE IF Len(ts) = 1 THEN ts[1]
    ELSE ts[1] \o <<" ">> \o Join(Tail(ts))

ExampleMetar ==
    Join(<< <<"K", "M", "D", "T">>,
            <<"2", "7", "0", "5", "5", "1", "Z">>,
            <<"0", "1", "0", "0", "8", "K", "T">>,
            <<"2", "S", "M">>,
            <<"B", "R">>,
            <<"O", "V", "C", "0", "0", "8">>,
            <<"0", "6", "/", "0", "4">>,
            <<"A", "3", "0", "1", "2">> >>)

(***************************************************************************)
(* Python str operations on texts.                                         *)
(***************************************************************************)
\* str.strip()
RECURSIVE LStrip(_)
LStrip(cs) == IF cs # <<>> /\ IsSpace(cs[1]) THEN LStrip(Tail(cs)) ELSE cs

RECURSIVE RStrip(_)
RStrip(cs) ==
    IF cs # <<>> /\ IsSpace(cs[Len(cs)])
    THEN RStrip(SubSeq(cs, 1, Len(cs) - 1)) ELSE cs

Strip(cs) == LStrip(RStrip(cs))

\* The characters of the texts of the model, in code point order: the blanks,
\* the ASCII characters the feeds are written in, and Latin-1 from U+00A0.
CodePoints ==
    <<"\t", "\n", "", "\f", "\r", "", "", "", "", " ", "+", ",", "-",
      ".", "/", "0", "1", "2", "3", "4", "5", "6", "7", "8", "9", ":", "A",
      "B", "C", "D", "E", "F", "G", "H", "I", "J", "K", "L", "M", "N", "O",
      "P", "Q", "R", "S", "T", "U", "V", "W", "X", "Y", "Z", "_", "a", "b",
      "c", "d", "e", "f", "g", "h", "i", "j", "k", "l", "m", "n", "o", "p",
      "q", "r", "s", "t", "u", "v", "w", "x", "y", "z", "", " ", "¡", "¢",
      "£", "¤", "¥", "¦", "§", "¨", "©", "ª", "«", "¬", "­", "®", "¯", "°",
      "±", "²", "³", "´", "µ", "¶", "·", "¸", "¹", "º", "»", "¼", "½", "¾",
      "¿", "À", "Á", "Â", "Ã", "Ä", "Å", "Æ", "Ç", "È", "É", "Ê", "Ë", "Ì",
      "Í", "Î", "Ï", "Ð", "Ñ", "Ò", "Ó", "Ô", "Õ", "Ö", "×", "Ø", "Ù", "Ú",
      "Û", "Ü", "Ý", "Þ", "ß", "à", "á", "â", "ã", "ä", "å", "æ", "ç", "è",
      "é", "ê", "ë", "ì", "í", "î", "ï", "ð", "ñ", "ò", "ó", "ô", "õ", "ö",
      "÷", "ø", "ù", "ú", "û", "ü", "ý", "þ", "ÿ">>

Characters == {CodePoints[k] : k \in 1..Len(CodePoints)}

\* ord(c), up to an increasing renumbering.
Ord == [c \in Characters |-> CHOOSE k \in 1..Len(CodePoints) : CodePoints[k] = c]

\* str.upper() of one character: a text, of two characters for the sharp s.
\* The capitals of the micro sign and of y with diaeresis lie beyond Latin-1:
\* the table leaves the two out.
UpperTable ==
    [c \in Characters \ {"µ", "ÿ"} |->
        IF Ord[c] >= Ord["a"] /\ Ord[c] <= Ord["z"]
        THEN <<CodePoints[Ord[c] - Ord["a"] + Ord["A"]]>>
        ELSE IF c = "ß" THEN <<"S", "S">>
        ELSE IF Ord[c] >= Ord["à"] /\ Ord[c] <= Ord["þ"] /\ c # "÷"
        THEN <<CodePoints[Ord[c] - Ord["à"] + Ord["À"]]>>
        ELSE <<c>>]

\* str.upper() of a text.
RECURSIVE Upper(_)
Upper(cs) == IF cs = <<>> THEN <<>> ELSE UpperTable[cs[1]] \o Upper(Tail(cs))

\* a < b for two texts: Python's comparison of str, by code point.
RECURSIVE StrLess(_, _)
StrLess(a, b) ==
    IF b = <<>> THEN FALSE
    ELSE IF a = <<>> THEN TRUE
    ELSE IF a[1] # b[1] THEN Ord[a[1]] < Ord[b[1]]
    ELSE StrLess(Tail(a), Tail(b))

\* The decimal fraction n/d (d a power of ten) in lowest decimal terms, so that
\* equal floats are equal values: 40.20 and 40.2.
RECURSIVE Decimal(_, _)
Decimal(n, d) ==
    IF d > 1 /\ n % 10 = 0 THEN Decimal(n \div 10, d \div 10) ELSE Value(n, d)

\* A float that is no number of the line: inf, -inf or nan.
NotFinite(kind, neg) ==
    [kind |-> kind, n |-> IF kind = "nan" THEN 0 ELSE IF neg THEN -1 ELSE 1, d |-> 1]

\* float(x) of a text; "none" where float raises ValueError. A finite result
\* is the exact fraction n/d of the numeral. float accepts, between blanks,
\* an optional sign and then either digits with an optional point and an
\* optional exponent, or inf, infinity or nan in any case; one underscore may
\* stand between two digits. Its blanks are those of str.strip() without the
\* four separators U+001C to U+001F. A numeral of 310 integer digits or more
\* is inf, one below 1e-324 is zero.
ParseFloat(x) ==
    LET Finite(neg, mag, exp, top) ==
            IF mag = 0 \/ top <= -324 THEN Value(0, 1)
            ELSE IF top >= 310 THEN NotFinite("inf", neg)
            ELSE IF exp >= 0 THEN Value((IF neg THEN -mag ELSE mag) * Pow10(exp), 1)
            ELSE Decimal(IF neg THEN -mag ELSE mag, Pow10(-exp))
        Numeral(neg, mag, exp) == Finite(neg, mag, exp, Len(IntToChars(mag)) + exp)
        \* s from start: digits to a, a point and digits to b when dot, and
        \* when hasE the exponent, its digits from c to f.
        Parts(s, neg, start, a, dot, b, fd, hasE, c, f) ==
            IF /\ a > start \/ (dot /\ b > a + 1)
               /\ IF hasE THEN f > c /\ f = Len(s) + 1 ELSE b = Len(s) + 1
            THEN Numeral(neg, IntOf(s, start, a) * Pow10(fd) + IntOf(s, a + 1, b),
                         IF hasE
                         THEN (IF s[b + 1] = "-" THEN -IntOf(s, c, f) ELSE IntOf(s, c, f)) - fd
                         ELSE -fd)
            ELSE NoValue
        ExponentPart(s, neg, start, a, dot, b, c) ==
            Parts(s, neg, start, a, dot, b, IF dot THEN b - a - 1 ELSE 0,
                  b <= Len(s) /\ s[b] \in {"e", "E"}, c, DigitRunEnd(s, c))
        FractionPart(s, neg, start, a, dot, b) ==
            ExponentPart(s, neg, start, a, dot, b,
                         IF b < Len(s) /\ s[b + 1] \in {"-", "+"} THEN b + 2 ELSE b + 1)
        PointPart(s, neg, start, a, dot) ==
            FractionPart(s, neg, start, a, dot, IF dot THEN DigitRunEnd(s, a + 1) ELSE a)
        WholePart(s, neg, start, a) == PointPart(s, neg, start, a, a <= Len(s) /\ s[a] = ".")
        Word(s, neg, start, word) ==
            IF word \in {<<"I", "N", "F">>, <<"I", "N", "F", "I", "N", "I", "T", "Y">>}
            THEN NotFinite("inf", neg)
            ELSE IF word = <<"N", "A", "N">> THEN NotFinite("nan", neg)
            ELSE WholePart(s, neg, start, DigitRunEnd(s, start))
        Signed(s, neg, start) == Word(s, neg, start, Upper(SubSeq(s, start, Len(s))))
        Stripped(s) ==
            Signed(s, s # <<>> /\ s[1] = "-",
                   IF s # <<>> /\ s[1] \in {"-", "+"} THEN 2 ELSE 1)
        Blanks(y, keep) ==
            Stripped(IF keep = {} THEN <<>>
                     ELSE SubSeq(y, Min(keep), CHOOSE i \in keep : \A j \in keep : j <= i))
        Ungrouped(y) ==
            Blanks(y, {i \in 1..Len(y) : ~IsSpace(y[i]) \/ y[i] \in {"", "", "", ""}})
    IN  IF \A i \in 1..Len(x) :
               x[i] = "_" => /\ i > 1 /\ x[i - 1] \in Digits
                             /\ i < Len(x) /\ x[i + 1] \in Digits
        THEN Ungrouped(SelectSeq(x, LAMBDA ch : ch # "_"))
        ELSE NoValue

\* as_float (update_metar.py, build_status_json_pa.py)
as_float(x) == ParseFloat(x)

\* dict.get(key, default) of a JSON object held as a function of its keys.
Get(obj, key, default) == IF key \in DOMAIN obj THEN obj[key] ELSE default

(***************************************************************************)
(* docs/status.json.                                                       *)
(*                                                                         *)
(* kind is "nodir" (no docs/ directory), "missing" (the directory without  *)
(* the file), "corrupt" (a file that is not JSON) or "json". A JSON         *)
(* document has a top-level shape: "object", "falsy" (null, 0, "", []:     *)
(* what `json.load(f) or {}` turns into {}) or "other" (any other value,   *)
(* such as a non-empty list). An object holds generated_utc (a clock       *)
(* reading), regions (region name -> list of station records), airports    *)
(* (airports_kind "dict": code -> entry; "absent": no such key; "other":   *)
(* a value that is no object) and the names of its other keys. An entry of *)
(* airports is [obj |-> TRUE, f |-> its fields] or, for a value that is no *)
(* object, [obj |-> FALSE, f |-> <<>>].                                    *)
(***************************************************************************)
EmptyMap == [k \in {} |-> 0]

Obj(fields) == [obj |-> TRUE, f |-> fields]
NotAnObject == [obj |-> FALSE, f |-> EmptyMap]

FileOf(kind, top, gen, regions, akind, airports, extra) ==
    [kind |-> kind, top |-> top, generated_utc |-> gen, regions |-> regions,
     airports_kind |-> akind, airports |-> airports, extra |-> extra]

NoDirectory == FileOf("nodir", "", 0, EmptyMap, "absent", EmptyMap, {})
MissingFile == FileOf("missing", "", 0, EmptyMap, "absent", EmptyMap, {})
CorruptFile == FileOf("corrupt", "", 0, EmptyMap, "absent", EmptyMap, {})
JsonFalsy == FileOf("json", "falsy", 0, EmptyMap, "absent", EmptyMap, {})
JsonNonObject == FileOf("json", "other", 0, EmptyMap, "absent", EmptyMap, {})

\* The document a run writes.
Snapshot(gen, regions, airports, extra) ==
    FileOf("json", "object", gen, regions, "dict", airports, extra)

EmptyRegions == [r \in {"Western", "Central", "Eastern"} |-> <<>>]

\* What a run of a script does: writes a document, or ends on an exception
\* (or sys.exit) before it wrote anything.
Wrote(doc) == [outcome |-> "wrote", exc |-> "", doc |-> doc]
Aborted(exc) == [outcome |-> "aborted", exc |-> exc, doc |-> MissingFile]

(***************************************************************************)
(* The station feed: rows as csv.DictReader yields them, a column that is  *)
(* absent being the empty text (the scripts read r.get(col) or "").        *)
(***************************************************************************)
StationRow(sid, state, lat, lon, name) ==
    [station_id |-> sid, state |-> state, latitude |-> lat,
     longitude |-> lon, station_name |-> name]

\* code_from_station_id
code_from_station_id(station_id) ==
    LET sid == Upper(Strip(station_id))
    IN  IF Len(sid) = 4 /\ sid[1] = "K" THEN Tail(sid) ELSE sid

\* icao_from_station_id (update_metar.py); build_status_json_pa.py writes the
\* same expression inline.
icao_from_station_id(station_id) ==
    LET sid == Upper(Strip(station_id))
    IN  IF Len(sid) = 4 THEN sid
        ELSE IF Len(sid) = 3 THEN <<"K">> \o sid
        ELSE sid

\* looks_like_metar_station (update_metar.py), looks_like_airport_station
\* (build_status_json_pa.py)
looks_like_metar_station(row) ==
    LET sid == Upper(Strip(row.station_id))
    IN  /\ sid # <<>>
        /\ Len(sid) \in {3, 4}
        /\ as_float(row.latitude).kind # "none"
        /\ as_float(row.longitude).kind # "none"

\* region_from_lon: lon <= -78.5, lon <= -76.5. Only -inf among the floats
\* that are no number is below a bound: a comparison with nan is False.
region_from_lon(lon) ==
    IF lon.kind # "val" THEN (IF lon.n < 0 THEN "Western" ELSE "Eastern")
    ELSE IF 10 * lon.n <= -785 * lon.d THEN "Western"
    ELSE IF 10 * lon.n <= -765 * lon.d THEN "Central"
    ELSE "Eastern"

\* The rows both builders keep: state == "PA" and a station-like row.
KeptRow(row) ==
    /\ Upper(Strip(row.state)) = <<"P", "A">>
    /\ looks_like_metar_station(row)

\* The station record appended to a region list.
StationRecord(row) ==
    LET sid == Upper(Strip(row.station_id))
    IN  [code |-> code_from_station_id(sid),
         icao |-> icao_from_station_id(sid),
         name |-> Strip(IF row.station_name # <<>> THEN row.station_name ELSE sid),
         lat  |-> as_float(row.latitude),
         lon  |-> as_float(row.longitude)]

\* list.sort(key=lambda x: x["code"]): a stable insertion sort by code.
RECURSIVE InsertByCode(_, _)
InsertByCode(sorted, x) ==
    IF sorted = <<>> THEN <<x>>
    ELSE IF StrLess(x.code, sorted[Len(sorted)].code)
    THEN InsertByCode(SubSeq(sorted, 1, Len(sorted) - 1), x) \o <<sorted[Len(sorted)]>>
    ELSE sorted \o <<x>>

RECURSIVE SortByCode(_)
SortByCode(list) ==
    IF list = <<>> THEN <<>>
    ELSE InsertByCode(SortByCode(SubSeq(list, 1, Len(list) - 1)), list[Len(list)])

SortRegions(regions) == [r \in DOMAIN regions |-> SortByCode(regions[r])]

(***************************************************************************)
(* build_status_json_pa.main                                               *)
(***************************************************************************)
\* A response of a remote endpoint to one GET: rows (or events), or the
\* exception urlopen / requests raised.
Response(rows) == [ok |-> TRUE, rows |-> rows]
FetchFailed == [ok |-> FALSE, rows |-> <<>>]

\* The loop over the kept rows: rows i.. of the feed, given the regions and
\* airports built from the rows before i.
RECURSIVE BuildLoop(_, _, _, _)

\* SeenCode without the set of seen codes: no row is ever a duplicate.
SeenCode_Never(code, airports) == FALSE

\* if code in seen: continue
SeenCode(code, airports) == code \in DOMAIN airports

\* BuildStep where a later row of a code replaces the earlier one.
BuildStep_LastWins(rows, i, regions, airports, rec) ==
    BuildLoop(rows, i + 1,
        [r \in DOMAIN regions |->
            IF r = region_from_lon(rec.lon)
            THEN Append(SelectSeq(regions[r], LAMBDA x : x.code # rec.code), rec)
            ELSE SelectSeq(regions[r], LAMBDA x : x.code # rec.code)],
        (rec.code :> Obj([icao            |-> rec.icao,
                          status          |-> <<"O", "K">>,
                          flight_category |-> <<"U", "N", "K">>,
                          impact_reason   |-> <<>>])) @@ airports)

\* The loop body for a kept row whose station record is rec.
BuildStep(rows, i, regions, airports, rec) ==
    IF SeenCode(rec.code, airports)
    THEN BuildLoop(rows, i + 1, regions, airports)
    ELSE BuildLoop(rows, i + 1,
             [regions EXCEPT ![region_from_lon(rec.lon)] = Append(@, rec)],
             (rec.code :> Obj([icao            |-> rec.icao,
                               status          |-> <<"O", "K">>,
                               flight_category |-> <<"U", "N", "K">>,
                               impact_reason   |-> <<>>])) @@ airports)

BuildLoop(rows, i, regions, airports) ==
    IF i > Len(rows) THEN [regions |-> regions, airports |-> airports]
    ELSE IF ~KeptRow(rows[i]) THEN BuildLoop(rows, i + 1, regions, airports)
    ELSE BuildStep(rows, i, regions, airports, StationRecord(rows[i]))

\* The document main writes from what the loop built.
\* main: the fetch, the loop, then open(OUT_PATH, "w"), which raises
\* FileNotFoundError where there is no docs/ directory: this main has no
\* os.makedirs. f: docs/status.json as the run finds it.
build_status_json_pa_main(f, stations, now) ==
    IF ~stations.ok THEN Aborted("URLError")
    ELSE IF f.kind = "nodir" THEN Aborted("FileNotFoundError")
    ELSE LET built == BuildLoop(stations.rows, 1, EmptyRegions, EmptyMap)
         IN  Wrote(Snapshot(now, SortRegions(built.regions), built.airports, {}))

(***************************************************************************)
(* update_metar.main                                                       *)
(***************************************************************************)
\* load_existing, then main's reading of "airports": the previous airports
\* map, or the AttributeError of calling .get on a value that is no object.
load_existing(f) ==
    IF f.kind \in {"nodir", "missing", "corrupt"}
    THEN [raised |-> FALSE, airports |-> EmptyMap]
    ELSE IF f.top = "falsy" THEN [raised |-> FALSE, airports |-> EmptyMap]
    ELSE IF f.top # "object" THEN [raised |-> TRUE, airports |-> EmptyMap]
    ELSE IF f.airports_kind = "dict" THEN [raised |-> FALSE, airports |-> f.airports]
    ELSE [raised |-> FALSE, airports |-> EmptyMap]

\* The station loop of update_metar.main. raised: prev.get on a previous entry
\* that is no object.
RECURSIVE MetarStationLoop(_, _, _, _, _)

\* The airports_out entry of a station whose previous entry is prev, with the
\* manual fields reset to their defaults instead of carried over.
AirportEntry_Reset(icao, prev) ==
    [icao            |-> icao,
     status          |-> <<"O", "K">>,
     impact_reason   |-> <<>>,
     flight_category |-> Get(prev, "flight_category", <<"U", "N", "K">>),
     metar_raw       |-> Get(prev, "metar_raw", <<>>),
     metar_time_utc  |-> Get(prev, "metar_time_utc", <<>>)]

\* The airports_out entry of a station whose previous entry is prev.
AirportEntry(icao, prev) ==
    [icao            |-> icao,
     status          |-> Get(prev, "status", <<"O", "K">>),
     impact_reason   |-> Get(prev, "impact_reason", <<>>),
     flight_category |-> Get(prev, "flight_category", <<"U", "N", "K">>),
     metar_raw       |-> Get(prev, "metar_raw", <<>>),
     metar_time_utc  |-> Get(prev, "metar_time_utc", <<>>)]

\* The loop body for a station not seen before, its previous entry being prev.
MetarStationAdd(rows, i, regions, airports, existing_airports, rec, prev) ==
    IF ~prev.obj
    THEN [raised |-> TRUE, regions |-> regions, airports |-> airports]
    ELSE MetarStationLoop(rows, i + 1,
             [regions EXCEPT ![region_from_lon(rec.lon)] = Append(@, rec)],
             (rec.code :> Obj(AirportEntry(rec.icao, prev.f))) @@ airports,
             existing_airports)

\* The loop body for a kept row whose station record is rec.
MetarStationStep(rows, i, regions, airports, existing_airports, rec) ==
    IF SeenCode(rec.code, airports)
    THEN MetarStationLoop(rows, i + 1, regions, airports, existing_airports)
    ELSE MetarStationAdd(rows, i, regions, airports, existing_airports, rec,
                         Get(existing_airports, rec.code, Obj(EmptyMap)))

MetarStationLoop(rows, i, regions, airports, existing_airports) ==
    IF i > Len(rows)
    THEN [raised |-> FALSE, regions |-> regions, airports |-> airports]
    ELSE IF ~KeptRow(rows[i])
    THEN MetarStationLoop(rows, i + 1, regions, airports, existing_airports)
    ELSE MetarStationStep(rows, i, regions, airports, existing_airports,
                          StationRecord(rows[i]))

\* A row of the METAR feed.
MetarRow(sid, fc, raw, obs) ==
    [station_id |-> sid, flight_category |-> fc, raw_text |-> raw,
     observation_time |-> obs]

\* metar_map: station id -> the last row of the feed with that id.
RECURSIVE MetarMap(_, _, _)
MetarMap(mrows, i, map) ==
    IF i > Len(mrows) THEN map
    ELSE LET sid == Upper(Strip(mrows[i].station_id))
             m   == [flight_category  |->
                        Upper(Strip(IF mrows[i].flight_category # <<>>
                                    THEN mrows[i].flight_category ELSE <<"U", "N", "K">>)),
                     raw_text         |-> Strip(mrows[i].raw_text),
                     observation_time |-> Strip(mrows[i].observation_time)]
         IN  IF Len(sid) # 4 THEN MetarMap(mrows, i + 1, map)
             ELSE MetarMap(mrows, i + 1, (sid :> m) @@ [k \in DOMAIN map \ {sid} |-> map[k]])

FlightCategories == {<<"V", "F", "R">>, <<"M", "V", "F", "R">>, <<"I", "F", "R">>, <<"L", "I", "F", "R">>}

\* norm_fc
norm_fc(fc) ==
    LET v == Upper(Strip(IF fc # <<>> THEN fc ELSE <<"U", "N", "K">>))
    IN  IF v \in FlightCategories THEN v ELSE <<"U", "N", "K">>

\* The last loop of main: one airport record updated from metar_map.
UpdateFromMetar(rec, metar_map) ==
    LET icao == Upper(Strip(rec.icao))
    IN  IF icao \notin DOMAIN metar_map
        THEN [rec EXCEPT !.flight_category = norm_fc(@)]
        ELSE LET m == metar_map[icao]
             IN  [rec EXCEPT !.flight_category = norm_fc(m.flight_category),
                             !.metar_raw = Strip(m.raw_text),
                             !.metar_time_utc = Strip(m.observation_time)]

\* main from the update loop on: metar_map is what the METAR feed gave.
MetarOutput(built, metar_map, now) ==
    Wrote(Snapshot(now, SortRegions(built.regions),
                   [c \in DOMAIN built.airports |->
                       Obj(UpdateFromMetar(built.airports[c].f, metar_map))],
                   {}))

\* main after the station loop: the METAR feed is fetched only when there are
\* stations (if icaos).
MetarFetch(built, metars, now) ==
    IF built.raised THEN Aborted("AttributeError")
    ELSE IF built.airports = EmptyMap THEN MetarOutput(built, EmptyMap, now)
    ELSE IF ~metars.ok THEN Aborted("URLError")
    ELSE MetarOutput(built, MetarMap(metars.rows, 1, EmptyMap), now)

\* main after load_existing.
MetarStations(existing, stations, metars, now) ==
    IF existing.raised THEN Aborted("AttributeError")
    ELSE IF ~stations.ok THEN Aborted("URLError")
    ELSE MetarFetch(MetarStationLoop(stations.rows, 1, EmptyRegions, EmptyMap,
                                     existing.airports),
                    metars, now)

update_metar_main(f, stations, metars, now) ==
    MetarStations(load_existing(f), stations, metars, now)

(***************************************************************************)
(* fetch_faa.py                                                            *)
(***************************************************************************)
Airport(code, name, region, lat, lon, metar_id) ==
    [code |-> code, name |-> name, region |-> region, lat |-> lat, lon |-> lon,
     metar |-> metar_id]

\* AIRPORTS (the dash of two names is written "-").
AIRPORTS ==
    <<
      Airport(<<"P", "I", "T">>, <<"P", "i", "t", "t", "s", "b", "u", "r", "g", "h", " ", "I", "n", "t", "l">>, "Western", Value(40492, 1000), Value(-802327, 10000), <<"K", "P", "I", "T">>),
      Airport(<<"E", "R", "I">>, <<"E", "r", "i", "e", " ", "I", "n", "t", "l">>, "Western", Value(420831, 10000), Value(-801739, 10000), <<"K", "E", "R", "I">>),
      Airport(<<"L", "B", "E">>, <<"A", "r", "n", "o", "l", "d", " ", "P", "a", "l", "m", "e", "r", " ", "R", "e", "g", "i", "o", "n", "a", "l">>, "Western", Value(402759, 10000), Value(-794048, 10000), <<"K", "L", "B", "E">>),
      Airport(<<"J", "S", "T">>, <<"J", "o", "h", "n", "s", "t", "o", "w", "n", "-", "C", "a", "m", "b", "r", "i", "a", " ", "C", "o", "u", "n", "t", "y">>, "Western", Value(403161, 10000), Value(-788339, 10000), <<"K", "J", "S", "T">>),
      Airport(<<"D", "U", "J">>, <<"D", "u", "B", "o", "i", "s", " ", "R", "e", "g", "i", "o", "n", "a", "l">>, "Western", Value(411783, 10000), Value(-788987, 10000), <<"K", "D", "U", "J">>),
      Airport(<<"M", "D", "T">>, <<"H", "a", "r", "r", "i", "s", "b", "u", "r", "g", " ", "I", "n", "t", "l">>, "Central", Value(401931, 10000), Value(-767633, 10000), <<"K", "M", "D", "T">>),
      Airport(<<"C", "X", "Y">>, <<"C", "a", "p", "i", "t", "a", "l", " ", "C", "i", "t", "y">>, "Central", Value(402171, 10000), Value(-768515, 10000), <<"K", "C", "X", "Y">>),
      Airport(<<"S", "C", "E">>, <<"S", "t", "a", "t", "e", " ", "C", "o", "l", "l", "e", "g", "e", " ", "R", "e", "g", "i", "o", "n", "a", "l">>, "Central", Value(408493, 10000), Value(-778487, 10000), <<"K", "U", "N", "V">>),
      Airport(<<"I", "P", "T">>, <<"W", "i", "l", "l", "i", "a", "m", "s", "p", "o", "r", "t", " ", "R", "e", "g", "i", "o", "n", "a", "l">>, "Central", Value(412421, 10000), Value(-769211, 10000), <<"K", "I", "P", "T">>),
      Airport(<<"A", "O", "O">>, <<"A", "l", "t", "o", "o", "n", "a", "-", "B", "l", "a", "i", "r", " ", "C", "o", "u", "n", "t", "y">>, "Central", Value(402964, 10000), Value(-7832, 100), <<"K", "A", "O", "O">>),
      Airport(<<"B", "F", "D">>, <<"B", "r", "a", "d", "f", "o", "r", "d", " ", "R", "e", "g", "i", "o", "n", "a", "l">>, "Central", Value(418031, 10000), Value(-786401, 10000), <<"K", "B", "F", "D">>),
      Airport(<<"P", "H", "L">>, <<"P", "h", "i", "l", "a", "d", "e", "l", "p", "h", "i", "a", " ", "I", "n", "t", "l">>, "Eastern", Value(398729, 10000), Value(-752437, 10000), <<"K", "P", "H", "L">>),
      Airport(<<"A", "B", "P">>, <<"N", "o", "r", "t", "h", "e", "a", "s", "t", " ", "P", "h", "i", "l", "a", "d", "e", "l", "p", "h", "i", "a">>, "Eastern", Value(400819, 10000), Value(-750106, 10000), <<"K", "P", "N", "E">>),
      Airport(<<"A", "B", "E">>, <<"L", "e", "h", "i", "g", "h", " ", "V", "a", "l", "l", "e", "y", " ", "I", "n", "t", "l">>, "Eastern", Value(406521, 10000), Value(-754408, 10000), <<"K", "A", "B", "E">>),
      Airport(<<"A", "V", "P">>, <<"W", "i", "l", "k", "e", "s", "-", "B", "a", "r", "r", "e", "/", "S", "c", "r", "a", "n", "t", "o", "n", " ", "I", "n", "t", "l">>, "Eastern", Value(413385, 10000), Value(-757234, 10000), <<"K", "A", "V", "P">>),
      Airport(<<"R", "D", "G">>, <<"R", "e", "a", "d", "i", "n", "g", " ", "R", "e", "g", "i", "o", "n", "a", "l">>, "Eastern", Value(403785, 10000), Value(-759652, 10000), <<"K", "R", "D", "G">>),
      Airport(<<"L", "N", "S">>, <<"L", "a", "n", "c", "a", "s", "t", "e", "r">>, "Eastern", Value(401217, 10000), Value(-762961, 10000), <<"K", "L", "N", "S">>),
      Airport(<<"M", "P", "O">>, <<"P", "o", "c", "o", "n", "o", " ", "M", "o", "u", "n", "t", "a", "i", "n", "s", " ", "M", "u", "n", "i", "c", "i", "p", "a", "l">>, "Eastern", Value(411375, 10000), Value(-753789, 10000), <<"K", "M", "P", "O">>)
    >>

REGION_ORDER == <<"Western", "Central", "Eastern">>
PA_CODES == [i \in 1..Len(AIRPORTS) |-> AIRPORTS[i].code]
PA_SET == {PA_CODES[i] : i \in 1..Len(PA_CODES)}

\* build_regions
RECURSIVE BuildRegionsLoop(_, _)
BuildRegionsLoop(i, regions) ==
    IF i > Len(AIRPORTS) THEN regions
    ELSE LET a == AIRPORTS[i]
         IN  BuildRegionsLoop(i + 1,
                 [regions EXCEPT ![a.region] =
                     Append(@, [code |-> a.code, name |-> a.name,
                                lat |-> a.lat, lon |-> a.lon])])

build_regions ==
    BuildRegionsLoop(1, [r \in {REGION_ORDER[i] : i \in 1..Len(REGION_ORDER)} |-> <<>>])

\* str.endswith, and the `in` of two texts.
EndsWith(s, suffix) == LitAt(s, Len(s) - Len(suffix) + 1, suffix)
Contains(s, sub) == \E i \in 1..Len(s) : LitAt(s, i, sub)

\* re.sub(r"\s+", " ", s)
RECURSIVE CollapseSpaces(_)
CollapseSpaces(s) ==
    IF s = <<>> THEN <<>>
    ELSE IF IsSpace(s[1])
    THEN <<" ">> \o CollapseSpaces(SubSeq(s, SpaceRunEnd(s, 1), Len(s)))
    ELSE <<s[1]>> \o CollapseSpaces(Tail(s))

\* One Airport element of the FAA document, with the tag of the list element
\* it is found under: its ARPT text, its Reason text and the text of the
\* whole element (" ".join(ap.itertext())); an absent child is the empty text.
FaaEvent(list_tag, arpt, reason, text) ==
    [list_tag |-> list_tag, arpt |-> arpt, reason |-> reason, text |-> text]

\* fetch_airport_status_information: the scan of the events in document
\* order. closures keeps the last reason of an airport, impacts the first.
RECURSIVE ScanEvents(_, _, _, _)
ScanEvents(events, i, closures, impacts) ==
    IF i > Len(events) THEN [closures |-> closures, impacts |-> impacts]
    ELSE
    LET ev      == events[i]
        arpt    == Upper(Strip(ev.arpt))
        r0      == Strip(ev.reason)
        reason  == IF r0 # <<>> THEN r0 ELSE CollapseSpaces(Strip(ev.text))
        closure == Contains(ev.list_tag, <<"C", "l", "o", "s", "u", "r", "e">>) \/ Contains(ev.list_tag, <<"C", "l", "o", "s", "u", "r", "e", "s">>)
    IN  IF ~EndsWith(ev.list_tag, <<"_", "L", "i", "s", "t">>) THEN ScanEvents(events, i + 1, closures, impacts)
        ELSE IF ev.arpt = <<>> THEN ScanEvents(events, i + 1, closures, impacts)
        ELSE IF arpt \notin PA_SET THEN ScanEvents(events, i + 1, closures, impacts)
        ELSE IF closure
        THEN ScanEvents(events, i + 1, (arpt :> reason) @@ closures, impacts)
        ELSE ScanEvents(events, i + 1, closures,
                        IF arpt \in DOMAIN impacts THEN impacts
                        ELSE (arpt :> reason) @@ impacts)

\* main's try/except around the fetch: a failed GET or an unparsable document
\* leaves both maps empty.
fetch_airport_status_information(faa) ==
    IF ~faa.ok THEN [closures |-> EmptyMap, impacts |-> EmptyMap]
    ELSE ScanEvents(faa.rows, 1, EmptyMap, EmptyMap)

\* One METAR object of the JSON response: its station id and its category.
FcRow(sid, fc) == [sid |-> sid, fc |-> fc]

\* fetch_flight_categories, with main's try/except: station id -> category,
\* the last object of a station winning; empty when the GET fails.
RECURSIVE CategoryMap(_, _, _)
CategoryMap(rows, i, cats) ==
    IF i > Len(rows) THEN cats
    ELSE LET sid == Upper(Strip(rows[i].sid))
             fc  == Upper(Strip(rows[i].fc))
         IN  IF sid # <<>> /\ fc # <<>>
             THEN CategoryMap(rows, i + 1, (sid :> fc) @@ cats)
             ELSE CategoryMap(rows, i + 1, cats)

fetch_flight_categories(resp) ==
    IF ~resp.ok THEN EmptyMap ELSE CategoryMap(resp.rows, 1, EmptyMap)

\* FaaStatus with the two loops of main in the other order of precedence: an
\* impact overrides a closure.
FaaStatus_ImpactFirst(a, closures, impacts, fc_map) ==
    LET impacted == a.code \in DOMAIN impacts
        closed   == ~impacted /\ a.code \in DOMAIN closures
    IN  Obj([code            |-> a.code,
             status          |-> IF closed THEN <<"C", "L", "O", "S", "E", "D">>
                                 ELSE IF impacted THEN <<"I", "M", "P", "A", "C", "T">> ELSE <<"O", "K">>,
             closed          |-> closed,
             closure_reason  |-> IF closed THEN closures[a.code] ELSE <<>>,
             events          |-> IF impacted
                                 THEN <<[type |-> <<"I", "m", "p", "a", "c", "t">>, reason |-> impacts[a.code]]>>
                                 ELSE <<>>,
             flight_category |-> Get(fc_map, Upper(a.metar), <<"U", "N", "K">>)])

\* main: the status record of one airport.
FaaStatus(a, closures, impacts, fc_map) ==
    LET closed   == a.code \in DOMAIN closures
        impacted == ~closed /\ a.code \in DOMAIN impacts
    IN  Obj([code            |-> a.code,
             status          |-> IF closed THEN <<"C", "L", "O", "S", "E", "D">>
                                 ELSE IF impacted THEN <<"I", "M", "P", "A", "C", "T">> ELSE <<"O", "K">>,
             closed          |-> closed,
             closure_reason  |-> IF closed THEN closures[a.code] ELSE <<>>,
             events          |-> IF impacted
                                 THEN <<[type |-> <<"I", "m", "p", "a", "c", "t">>, reason |-> impacts[a.code]]>>
                                 ELSE <<>>,
             flight_category |-> Get(fc_map, Upper(a.metar), <<"U", "N", "K">>)])

AirportTable ==
    [c \in PA_SET |-> AIRPORTS[CHOOSE i \in 1..Len(AIRPORTS) : AIRPORTS[i].code = c]]

fetch_faa_main(faa, metars, now) ==
    LET info   == fetch_airport_status_information(faa)
        fc_map == fetch_flight_categories(metars)
    IN  Wrote(Snapshot(now, build_regions,
                       [c \in PA_SET |->
                           FaaStatus(AirportTable[c], info.closures, info.impacts, fc_map)],
                       {"source", "note"}))

(***************************************************************************)
(* update_status.main                                                      *)
(***************************************************************************)
\* The body of a METAR response, or the exception fetch_text raised: "url"
\* for HTTPError / URLError, "other" for any other (a timeout or a reset
\* connection while reading the body).
Body(text) == [ok |-> TRUE, exc |-> "", text |-> text]
FetchError(exc) == [ok |-> FALSE, exc |-> exc, text |-> <<>>]

\* lines[0]: the first non-empty line of a stripped, non-empty text.
RECURSIVE LineEnd(_, _)
LineEnd(s, i) ==
    IF i > Len(s) \/ s[i] \in {"\n", "", "\f", "\r", "", "", "", ""}
    THEN i ELSE LineEnd(s, i + 1)

FirstLine(raw) == Strip(SubSeq(raw, 1, LineEnd(raw, 1) - 1))

CatChars(cat) ==
    CASE cat = "LIFR" -> <<"L", "I", "F", "R">> [] cat = "IFR" -> <<"I", "F", "R">> [] cat = "MVFR" -> <<"M", "V", "F", "R">>
      [] cat = "VFR" -> <<"V", "F", "R">> [] cat = "UNK" -> <<"U", "N", "K">>

\* status_from_flight_cat with MVFR left out of the degraded categories.
status_from_flight_cat_NoMVFR(cat) ==
    LET c == Upper(IF cat # <<>> THEN cat ELSE <<"U", "N", "K">>)
    IN  IF c \in {<<"I", "F", "R">>, <<"L", "I", "F", "R">>} THEN "IMPACT" ELSE "OK"

\* status_from_flight_cat: c = (cat or "UNK").upper(), then IMPACT for IFR,
\* LIFR and MVFR and OK for anything else.
status_from_flight_cat(cat) ==
    LET c == Upper(IF cat # <<>> THEN cat ELSE <<"U", "N", "K">>)
    IN  IF c \in {<<"I", "F", "R">>, <<"L", "I", "F", "R">>, <<"M", "V", "F", "R">>} THEN "IMPACT" ELSE "OK"

\* The fields main assigns when there is no METAR for the airport.
NoMetarFields(reason, updated_utc) ==
    [status          |-> <<"C", "L", "O", "S", "E", "D">>,
     flight_category |-> <<"U", "N", "K">>,
     impact_reason   |-> reason,
     metar_raw       |-> <<>>,
     metar_time_utc  |-> <<>>,
     updated_utc     |-> updated_utc]

\* The fields main assigns from the classified first line of a METAR.
MetarFields(line, cat, reason, st, updated_utc) ==
    [status          |-> IF st = "IMPACT" THEN <<"I", "M", "P", "A", "C", "T">> ELSE <<"O", "K">>,
     flight_category |-> CatChars(cat),
     impact_reason   |->
        IF reason # <<>> /\ st = "IMPACT"
        THEN CatChars(cat) \o <<":", " ">> \o reason
        ELSE IF st = "IMPACT" THEN <<"F", "l", "i", "g", "h", "t", " ", "r", "u", "l", "e", "s", " ", "d", "e", "g", "r", "a", "d", "e", "d">>
        ELSE <<>>,
     metar_raw       |-> line,
     metar_time_utc  |-> parse_metar_time_utc(line),
     updated_utc     |-> updated_utc]

\* main's loop body after lines[0] is taken: fc is what the classifier did.
TurnOfCategory(line, fc, updated_utc) ==
    IF fc.outcome = "raise"
    THEN [raised |-> TRUE, exc |-> fc.exc, fields |-> EmptyMap]
    ELSE [raised |-> FALSE, exc |-> "",
          fields |-> MetarFields(line, fc.cat, fc.reason,
                                 status_from_flight_cat(CatChars(fc.cat)), updated_utc)]

TurnOfLine(line, updated_utc) ==
    TurnOfCategory(line, flight_category_from_metar(line), updated_utc)

\* main's loop body once the stripped body raw of the response is known.
TurnOfBody(raw, updated_utc) ==
    IF raw = <<>>
    THEN [raised |-> FALSE, exc |-> "",
          fields |-> NoMetarFields(<<"n", "o", " ", "M", "E", "T", "A", "R">>, updated_utc)]
    ELSE TurnOfLine(FirstLine(raw), updated_utc)

\* One turn of main's loop for an airport whose entry is an object: the fields
\* it assigns, or the exception that leaves the loop.
StatusTurn(resp, updated_utc) ==
    IF ~resp.ok
    THEN IF resp.exc = "url"
         THEN [raised |-> FALSE, exc |-> "",
               fields |-> NoMetarFields(<<"M", "E", "T", "A", "R", " ", "f", "e", "t", "c", "h", " ", "e", "r", "r", "o", "r">>, updated_utc)]
         ELSE [raised |-> TRUE, exc |-> "TimeoutError", fields |-> EmptyMap]
    ELSE TurnOfBody(Strip(resp.text), updated_utc)

\* The exception that ends the loop at an airport whose turn is t, "" when
\* the turn completes: an exception of the fetch that main does not catch, or of the
\* classifier, comes first; then assigning into an entry that is no object is
\* a TypeError.
TurnException(entry, t) ==
    IF t.raised THEN t.exc
    ELSE IF ~entry.obj THEN "TypeError"
    ELSE ""

\* min() of a non-empty set of texts.
MinStr(S) == CHOOSE x \in S : \A y \in S \ {x} : StrLess(x, y)

\* main's loop over data["airports"], turn[c] being the turn of airport c, and
\* the write that follows it.
StatusLoop(f, turn, now) ==
    LET failing == {c \in DOMAIN f.airports : TurnException(f.airports[c], turn[c]) # ""}
    IN  IF failing # {}
        THEN Aborted(TurnException(f.airports[MinStr(failing)], turn[MinStr(failing)]))
        ELSE Wrote([f EXCEPT
                 !.generated_utc = now,
                 !.airports_kind = "dict",
                 !.airports = [c \in DOMAIN f.airports |->
                                  Obj(turn[c].fields @@ f.airports[c].f)]])

\* main. responses: airport code -> what the GET for that airport gives.
update_status_main(f, responses, now) ==
    IF f.kind \in {"nodir", "missing"} THEN Aborted("SystemExit(2)")
    ELSE IF f.kind = "corrupt" THEN Aborted("JSONDecodeError")
    ELSE IF f.top # "object" THEN Aborted("AttributeError")
    ELSE IF f.airports_kind = "other" THEN Aborted("AttributeError")
    ELSE StatusLoop(f, [c \in DOMAIN f.airports |-> StatusTurn(responses[c], now)], now)

(***************************************************************************)
(* The inputs the runs are given.                                          *)
(***************************************************************************)
\* Rows of the station feed: two rows that derive the code MDT (in different
\* regions), the longitude -78.5 that separates Western from Central, a row
\* of another state and a row without a latitude.
RowKMDT == StationRow(<<"K", "M", "D", "T">>, <<"P", "A">>, <<"4", "0", ".", "1", "9">>, <<"-", "7", "6", ".", "7", "6">>, <<"H", "a", "r", "r", "i", "s", "b", "u", "r", "g", " ", "I", "n", "t", "l">>)
RowMDT == StationRow(<<" ", "m", "d", "t">>, <<"p", "a", " ">>, <<"4", ".", "0", "2", "e", "1">>, <<"-", "7", "5", ".", "5">>, <<>>)
RowKPIT == StationRow(<<"K", "P", "I", "T">>, <<"P", "A">>, <<"4", "0", ".", "4", "9">>, <<"-", "7", "8", ".", "5">>, <<" ", "P", "i", "t", "t", "s", "b", "u", "r", "g", "h", " ">>)
RowKJFK == StationRow(<<"K", "J", "F", "K">>, <<"N", "Y">>, <<"4", "0", ".", "6", "4">>, <<"-", "7", "3", ".", "7", "8">>, <<"K", "e", "n", "n", "e", "d", "y">>)
RowNoLat == StationRow(<<"K", "P", "H", "L">>, <<"P", "A">>, <<>>, <<"-", "7", "5", ".", "2", "4">>, <<"P", "h", "i", "l", "a", "d", "e", "l", "p", "h", "i", "a">>)

StationResponses ==
    {FetchFailed}
        \cup {Response(rows) :
                 rows \in UNION {[1..k -> {RowKMDT, RowMDT, RowKPIT, RowKJFK, RowNoLat}] :
                                   k \in 0..MaxRows}}

\* Rows of the METAR feed.
MRowKMDT == MetarRow(<<"K", "M", "D", "T">>, <<"I", "F", "R">>, <<"K", "M", "D", "T", " ", "2", "7", "0", "5", "5", "1", "Z", " ", "2", "S", "M", " ", "O", "V", "C", "0", "0", "8">>, <<"2", "0", "2", "6", "-", "0", "1", "-", "2", "7", "T", "0", "5", ":", "5", "1", ":", "0", "0", "Z">>)
MRowKmdt == MetarRow(<<" ", "k", "m", "d", "t", " ">>, <<" ", "m", "v", "f", "r", " ">>, <<" ", "K", "M", "D", "T", " ", "2", "7", "0", "6", "5", "1", "Z", " ", "5", "S", "M", " ">>, <<" ", "2", "0", "2", "6", "-", "0", "1", "-", "2", "7", "T", "0", "6", ":", "5", "1", ":", "0", "0", "Z", " ">>)
MRowKPIT == MetarRow(<<"K", "P", "I", "T">>, <<>>, <<"K", "P", "I", "T", " ", "2", "7", "0", "5", "5", "1", "Z">>, <<>>)
MRowShort == MetarRow(<<"M", "D", "T">>, <<"L", "I", "F", "R">>, <<"M", "D", "T", " ", "1", "/", "4", "S", "M">>, <<"2", "0", "2", "6", "-", "0", "1", "-", "2", "7", "T", "0", "5", ":", "5", "1", ":", "0", "0", "Z">>)

MetarResponses ==
    { FetchFailed,
      Response(<<>>),
      Response(<<MRowKMDT>>),
      Response(<<MRowKMDT, MRowKmdt>>),
      Response(<<MRowKPIT, MRowShort>>) }

\* Airport elements of the FAA document.
EvClosureABE == FaaEvent(<<"A", "i", "r", "p", "o", "r", "t", "_", "C", "l", "o", "s", "u", "r", "e", "_", "L", "i", "s", "t">>, <<"A", "B", "E">>, <<"S", "n", "o", "w", " ", "r", "e", "m", "o", "v", "a", "l">>, <<"A", "B", "E", " ", "S", "n", "o", "w", " ", "r", "e", "m", "o", "v", "a", "l">>)
EvClosureABE2 == FaaEvent(<<"A", "i", "r", "p", "o", "r", "t", "_", "C", "l", "o", "s", "u", "r", "e", "_", "L", "i", "s", "t">>, <<"a", "b", "e", " ">>, <<>>, <<"a", "b", "e", " ", " ", "I", "c", "e">>)
EvDelayABE == FaaEvent(<<"G", "r", "o", "u", "n", "d", "_", "D", "e", "l", "a", "y", "_", "L", "i", "s", "t">>, <<"A", "B", "E">>, <<"V", "o", "l", "u", "m", "e">>, <<"A", "B", "E", " ", "V", "o", "l", "u", "m", "e">>)
EvRunwayABE == FaaEvent(<<"A", "r", "r", "i", "v", "a", "l", "_", "D", "e", "p", "a", "r", "t", "u", "r", "e", "_", "D", "e", "l", "a", "y", "_", "L", "i", "s", "t">>, <<"A", "B", "E">>, <<"R", "u", "n", "w", "a", "y", " ", "c", "l", "o", "s", "e", "d">>, <<"A", "B", "E", " ", "R", "u", "n", "w", "a", "y", " ", "c", "l", "o", "s", "e", "d">>)
EvDelayMDT == FaaEvent(<<"G", "r", "o", "u", "n", "d", "_", "S", "t", "o", "p", "_", "L", "i", "s", "t">>, <<"M", "D", "T">>, <<"W", "i", "n", "d">>, <<"M", "D", "T", " ", "W", "i", "n", "d">>)
EvClosureJFK == FaaEvent(<<"A", "i", "r", "p", "o", "r", "t", "_", "C", "l", "o", "s", "u", "r", "e", "_", "L", "i", "s", "t">>, <<"J", "F", "K">>, <<"S", "n", "o", "w", " ", "r", "e", "m", "o", "v", "a", "l">>, <<"J", "F", "K", " ", "S", "n", "o", "w", " ", "r", "e", "m", "o", "v", "a", "l">>)
EvNotInList == FaaEvent(<<"D", "e", "l", "a", "y", "_", "t", "y", "p", "e">>, <<"A", "B", "E">>, <<"V", "o", "l", "u", "m", "e">>, <<"A", "B", "E", " ", "V", "o", "l", "u", "m", "e">>)
EvNoAirport == FaaEvent(<<"G", "r", "o", "u", "n", "d", "_", "D", "e", "l", "a", "y", "_", "L", "i", "s", "t">>, <<>>, <<"V", "o", "l", "u", "m", "e">>, <<"V", "o", "l", "u", "m", "e">>)

FaaResponses ==
    {FetchFailed} \cup
    {Response(evs) :
        evs \in UNION {[1..k -> {EvClosureABE, EvClosureABE2, EvDelayABE, EvRunwayABE,
                                 EvDelayMDT, EvClosureJFK, EvNotInList, EvNoAirport}] :
                         k \in 0..MaxEvents}}

\* METAR objects of the JSON response read by fetch_faa.py.
FcResponses ==
    { FetchFailed,
      Response(<<>>),
      Response(<<FcRow(<<"K", "A", "B", "E">>, <<"I", "F", "R">>), FcRow(<<" ", "k", "a", "b", "e">>, <<"l", "i", "f", "r", " ">>), FcRow(<<"K", "M", "D", "T">>, <<>>)>>) }

\* Bodies of the raw METAR endpoint read by update_status.py.
StatusResponses ==
    { FetchError("url"),
      FetchError("other"),
      Body(<<" ", "\n">>),
      Body(<<" ", "K", "M", "D", "T", " ", "2", "7", "0", "5", "5", "1", "Z", " ", "2", "S", "M", " ", "O", "V", "C", "0", "0", "8">> \o <<"\n">> \o <<"K", "M", "D", "T", " ", "2", "7", "0", "4", "5", "1", "Z", " ", "6", "S", "M">>),
      Body(<<"K", "M", "D", "T", " ", "2", "7", "0", "5", "5", "1", "Z", " ", "6", "S", "M">>),
      Body(<<"K", "M", "D", "T", " ", "A", "U", "T", "O">>),
      Body(<<"K", "M", "D", "T", " ", "2", "7", "0", "5", "5", "1", "Z", " ", "5", "S", "M", " ", "B", "K", "N", "0", "1", "5">>),
      Body(<<"K", "M", "D", "T", " ", "2", "7", "0", "5", "5", "1", "Z", " ", "1", "/", "2", "S", "M", " ", "V", "V", "0", "0", "2">>),
      Body(<<"K", "M", "D", "T", " ", "1", "/", "0", "S", "M">>) }

\* docs/status.json before the first run: absent, not JSON, JSON of another
\* shape, a snapshot of an earlier run with hand-edited status fields, and a
\* snapshot one of whose entries is no object.
ObjectWithoutAirports ==
    FileOf("json", "object", 0, EmptyMap, "absent", EmptyMap, {})
ObjectAirportsNotDict ==
    FileOf("json", "object", 0, EmptyMap, "other", EmptyMap, {})

ManualSnapshot ==
    Snapshot(0,
        [EmptyRegions EXCEPT !["Central"] = <<StationRecord(RowKMDT)>>],
        (<<"M", "D", "T">> :> Obj([icao            |-> <<"K", "M", "D", "T">>,
                        status          |-> <<"I", "M", "P", "A", "C", "T">>,
                        impact_reason   |-> <<"f", "o", "o">>,
                        flight_category |-> <<"V", "F", "R">>,
                        metar_raw       |-> <<"K", "M", "D", "T", " ", "2", "6", "0", "5", "5", "1", "Z", " ", "1", "0", "S", "M">>,
                        metar_time_utc  |-> <<"2", "0", "2", "6", "-", "0", "1", "-", "2", "6", "T", "0", "5", ":", "5", "1", ":", "0", "0", "Z">>]))
        @@ (<<"P", "I", "T">> :> Obj([status |-> <<"C", "L", "O", "S", "E", "D">>])),
        {})

OddSnapshot ==
    Snapshot(0,
        [EmptyRegions EXCEPT !["Central"] = <<StationRecord(RowKMDT)>>],
        (<<"M", "D", "T">> :> NotAnObject),
        {})

InitialFiles ==
    {NoDirectory, MissingFile, CorruptFile, JsonFalsy, JsonNonObject, ObjectWithoutAirports,
     ObjectAirportsNotDict, ManualSnapshot, OddSnapshot}

(***************************************************************************)
(* Runs of the scripts.                                                    *)
(***************************************************************************)
\* What the endpoints serve: the station feed and the METAR feed (CSV), the
\* FAA document, the METAR objects (JSON) and, per airport code, the raw
\* METAR body.
Remote(stations, metars, faa, cats, responses) ==
    [stations |-> stations, metars |-> metars, faa |-> faa, cats |-> cats,
     responses |-> responses]

NoRemote == Remote(FetchFailed, FetchFailed, FetchFailed, FetchFailed, EmptyMap)

\* A run of a script, from its first statement to its last. Nothing keeps
\* two runs apart: a run reads docs/status.json and the clock where its code
\* does, waits on each GET, and writes in the steps of its code (os.makedirs,
\* open(..., "w"), json.dump), other runs acting in between. existing:
\* docs/status.json as it read it (update_metar.main, update_status.main);
\* now: the clock as it read it; served: what its GETs were answered, gets of
\* them so far. NoRun: no run has ended yet.
NoRun ==
    [script |-> "none", outcome |-> "none", exc |-> "", existing |-> MissingFile,
     now |-> 0, served |-> NoRemote, gets |-> 0, doc |-> MissingFile, rerun |-> FALSE]

NoCall == [fetcher |-> "none", attempts |-> 0, result |-> "none"]

\* The readings of the clock a run can take: time stands still or advances.
Nows == {clock} \cup (IF clock < MaxClock THEN {clock + 1} ELSE {})

\* What main comes to with what run r has read, f being docs/status.json as
\* its open(..., "w") finds it. update_status.main has turned its loop for the
\* airports it has fetched a METAR for.
Outcome(r, f) ==
    CASE r.script = "build_status_json_pa" ->
            build_status_json_pa_main(f, r.served.stations, r.now)
      [] r.script = "update_metar" ->
            update_metar_main(r.existing, r.served.stations, r.served.metars, r.now)
      [] r.script = "fetch_faa" ->
            fetch_faa_main(r.served.faa, r.served.cats, r.now)
      [] r.script = "update_status" ->
            update_status_main(
                [r.existing EXCEPT !.airports =
                    [c \in DOMAIN r.served.responses |-> r.existing.airports[c]]],
                r.served.responses, r.now)

\* Run r has a GET before it: the station feed; for update_metar.main then
\* the METAR feed, one GET for each 60 of the ICAO ids the station loop gave
\* it (chunks(icaos, 60)), as long as no GET failed; the two GETs of
\* fetch_faa.main; for update_status.main one GET for each airport of the
\* snapshot, as long as no turn of its loop raised.
Waits(r) ==
    CASE r.script = "build_status_json_pa" -> r.gets = 0
      [] r.script = "update_metar" ->
            \/ r.gets = 0 /\ ~load_existing(r.existing).raised
            \/ /\ r.gets >= 1
               /\ r.served.stations.ok
               /\ r.gets = 1 \/ r.served.metars.ok
               /\ LET Asks(built) ==
                          /\ ~built.raised
                          /\ r.gets - 1 <
                               (Cardinality({Upper(Strip(built.airports[c].f.icao)) :
                                                c \in DOMAIN built.airports}) + 59) \div 60
                  IN  Asks(MetarStationLoop(r.served.stations.rows, 1, EmptyRegions,
                                            EmptyMap, load_existing(r.existing).airports))
      [] r.script = "fetch_faa" -> r.gets < 2
      [] r.script = "update_status" ->
            /\ Outcome(r, MissingFile).outcome = "wrote"
            /\ DOMAIN r.served.responses # DOMAIN r.existing.airports

\* The record of run r that ended as o. doc: the document it handed to
\* json.dump; rerun: the run that ended before it was of the same script,
\* wrote the snapshot this run read, and was served the same remote data.
Ran(r, o) ==
    [script |-> r.script, outcome |-> o.outcome, exc |-> o.exc,
     existing |-> r.existing, now |-> r.now, served |-> r.served, gets |-> r.gets,
     doc |-> o.doc,
     rerun |-> /\ last.script = r.script
               /\ last.outcome = "wrote"
               /\ r.script \in {"update_metar", "update_status"} => r.existing = last.doc
               /\ last.served = r.served]

\* Run r has read what it was given, rest being the other runs in flight: it
\* goes on to its next GET, or to the first statement after its GETs
\* (now_utc_iso_z() in the two builders, os.makedirs in fetch_faa.main, open
\* in update_status.main), or it ends on the exception that what it read
\* raises.
Proceed(r, rest) ==
    LET Ends(o) ==
            IF o.outcome = "wrote"
            THEN /\ runs' = rest (+) SetToBag({[r EXCEPT !.at =
                              CASE r.script \in {"build_status_json_pa", "update_metar"} -> "clock"
                                [] r.script = "fetch_faa" -> "makedirs"
                                [] r.script = "update_status" -> "open"]})
                 /\ UNCHANGED last
            ELSE /\ runs' = rest
                 /\ last' = Ran(r, o)
    IN  IF Waits(r)
        THEN runs' = rest (+) SetToBag({r}) /\ UNCHANGED last
        ELSE Ends(Outcome(r, MissingFile))

\* A run begins. update_metar.main and update_status.main read
\* docs/status.json; fetch_faa.main reads the clock first of all, and
\* update_status.main reads it once json.load and data.get("airports", {})
\* have returned, before sorted(airports.keys()). A run that cannot go on from
\* what it read ends here: update_status.main on an airports that is no
\* object has read the clock by then, the other runs that end here have not.
\* at: the statement the run executes next, a GET ("get"), the reading of the
\* clock ("clock"), os.makedirs ("makedirs"), open(..., "w") ("open") or
\* json.dump ("dump"); torn: another run had docs/status.json open for
\* writing while this one had.
Start(script) ==
    /\ BagCardinality(runs) < MaxRuns
    /\ \E now \in IF \/ script = "fetch_faa"
                     \/ script = "update_status" /\ file.kind = "json" /\ file.top = "object"
                  THEN Nows ELSE {clock} :
          /\ Proceed([script |-> script,
                      existing |-> IF script \in {"update_metar", "update_status"}
                                   THEN file ELSE MissingFile,
                      now |-> now, served |-> NoRemote, gets |-> 0,
                      at |-> "get", torn |-> FALSE], runs)
          /\ clock' = now
    /\ UNCHANGED <<metar, fcres, file, remote, net, call>>

\* A GET of a run is answered, the response added to what the run was
\* served: update_metar.main merges the rows of each of its METAR GETs into
\* metar_map, update_status.main asks for its airports in the order of their
\* codes. An exception the script does not catch, of the fetch or of what it
\* does with the response before its next GET, ends the run.
Fetch(script) ==
    \E r0 \in BagToSet(runs) :
        /\ r0.script = script
        /\ r0.at = "get"
        /\ LET Asked(code) == (code :> remote.responses[code]) @@ r0.served.responses
               served ==
                   CASE script = "build_status_json_pa" ->
                           [r0.served EXCEPT !.stations = remote.stations]
                     [] script = "update_metar" ->
                           IF r0.gets = 0
                           THEN [r0.served EXCEPT !.stations = remote.stations]
                           ELSE IF r0.gets = 1 \/ ~remote.metars.ok
                           THEN [r0.served EXCEPT !.metars = remote.metars]
                           ELSE [r0.served EXCEPT !.metars =
                                    Response(@.rows \o remote.metars.rows)]
                     [] script = "fetch_faa" ->
                           IF r0.gets = 0
                           THEN [r0.served EXCEPT !.faa = remote.faa]
                           ELSE [r0.served EXCEPT !.cats = remote.cats]
                     [] script = "update_status" ->
                           [r0.served EXCEPT !.responses =
                               Asked(MinStr(DOMAIN r0.existing.airports
                                              \ DOMAIN r0.served.responses))]
           IN  Proceed([r0 EXCEPT !.served = served, !.gets = @ + 1],
                       runs (-) SetToBag({r0}))
        /\ UNCHANGED <<metar, fcres, file, remote, clock, net, call>>

\* build_status_json_pa.main and update_metar.main read the clock for
\* generated_utc once their loops are done.
Stamp(script) ==
    \E r \in BagToSet(runs) :
        /\ r.script = script
        /\ r.at = "clock"
        /\ \E now \in Nows :
              /\ runs' = (runs (-) SetToBag({r}))
                           (+) SetToBag({[r EXCEPT !.now = now,
                                                   !.at = IF script = "update_metar"
                                                          THEN "makedirs" ELSE "open"]})
              /\ clock' = now
        /\ UNCHANGED <<metar, fcres, file, remote, last, net, call>>

\* os.makedirs(..., exist_ok=True) of update_metar.main and fetch_faa.main:
\* docs/ is there from now on.
MakeDirs(script) ==
    \E r \in BagToSet(runs) :
        /\ r.script = script
        /\ r.at = "makedirs"
        /\ runs' = (runs (-) SetToBag({r})) (+) SetToBag({[r EXCEPT !.at = "open"]})
        /\ file' = IF file.kind = "nodir" THEN MissingFile ELSE file
        /\ UNCHANGED <<metar, fcres, remote, last, clock, net, call>>

\* open(..., "w"): FileNotFoundError where there is no docs/ directory, else
\* docs/status.json is emptied, and it is no JSON until json.dump has filled
\* it. A run that has the file open while another opens it is torn, as is the
\* one that opens it.
Open(script) ==
    \E r \in BagToSet(runs) :
        /\ r.script = script
        /\ r.at = "open"
        /\ LET Tear(x) == IF x.at = "dump" THEN [x EXCEPT !.torn = TRUE] ELSE x
               Opens(o, others) ==
                   IF o.outcome = "wrote"
                   THEN /\ runs' = BagOfAll(Tear, others)
                                     (+) SetToBag({[r EXCEPT !.at = "dump",
                                                             !.torn = \E x \in BagToSet(others) :
                                                                          x.at = "dump"]})
                        /\ file' = CorruptFile
                        /\ UNCHANGED last
                   ELSE /\ runs' = others
                        /\ last' = Ran(r, o)
                        /\ UNCHANGED file
           IN  Opens(Outcome(r, file), runs (-) SetToBag({r}))
        /\ UNCHANGED <<metar, fcres, remote, clock, net, call>>

\* json.dump and the closing of the file: docs/status.json holds the run's
\* document. Two runs that had the file open together each write from the
\* start of the file, the later bytes over the earlier ones: the file ends as
\* the document of the run that wrote last or, when that one is the shorter
\* or a part of the other was flushed in between, as a text that is no JSON.
\* (The documents drawn here are shorter than the buffer of the file object:
\* each reaches the file in one write.)
Dump(script) ==
    \E r \in BagToSet(runs) :
        /\ r.script = script
        /\ r.at = "dump"
        /\ LET Writes(o) ==
                   /\ file' \in {o.doc} \cup (IF r.torn THEN {CorruptFile} ELSE {})
                   /\ last' = Ran(r, o)
           IN  Writes(Outcome(r, MissingFile))
        /\ runs' = runs (-) SetToBag({r})
        /\ UNCHANGED <<metar, fcres, remote, clock, net, call>>

RunBuild ==
    \/ Start("build_status_json_pa")
    \/ Fetch("build_status_json_pa")
    \/ Stamp("build_status_json_pa")
    \/ Open("build_status_json_pa")
    \/ Dump("build_status_json_pa")

RunUpdateMetar ==
    \/ Start("update_metar")
    \/ Fetch("update_metar")
    \/ Stamp("update_metar")
    \/ MakeDirs("update_metar")
    \/ Open("update_metar")
    \/ Dump("update_metar")

RunFetchFaa ==
    \/ Start("fetch_faa")
    \/ Fetch("fetch_faa")
    \/ MakeDirs("fetch_faa")
    \/ Open("fetch_faa")
    \/ Dump("fetch_faa")

RunUpdateStatus ==
    \/ Start("update_status")
    \/ Fetch("update_status")
    \/ Open("update_status")
    \/ Dump("update_status")

\* The METAR feed moves on to other observations.
MetarFeedChanges ==
    \E metars \in MetarResponses \ {remote.metars} :
        /\ remote' = [remote EXCEPT !.metars = metars]
        /\ UNCHANGED <<metar, fcres, file, runs, last, clock, net, call>>

(***************************************************************************)
(* A remote fetch: fetch_text (update_status.py, update_metar.py,          *)
(* build_status_json_pa.py) and the requests.get calls of fetch_faa.py.    *)
(* Each issues one GET and returns its body or lets its exception out.     *)
(***************************************************************************)
OneGet(fetcher) ==
    /\ net # <<>>
    /\ call' = [fetcher  |-> fetcher,
                attempts |-> 1,
                result   |-> IF Head(net) = "ok" THEN "returned" ELSE "raised"]
    /\ net' = Tail(net)
    /\ UNCHANGED <<metar, fcres, file, remote, runs, last, clock>>

FetchText == \E script \in {"update_status", "update_metar", "build_status_json_pa"} :
                OneGet(script)

RequestsGet == OneGet("fetch_faa")

(***************************************************************************)
(* Specifications.                                                         *)
(*   Spec          the writers of the registry on one docs/status.json     *)
(*   SpecMerge     update_metar.py while the METAR feed moves on           *)
(*   SpecFaa       fetch_faa.py on every FAA document                      *)
(*   SpecStatus    update_status.py on a snapshot                          *)
(*   SpecRefresh   update_status.py and update_metar.py on one snapshot    *)
(*   SpecClassify  one call of flight_category_from_metar on any text      *)
(*   SpecFetch     remote fetches against an endpoint                      *)
(***************************************************************************)
\* The writers of the registry on one docs/status.json, two runs at most in
\* flight: the snapshot that holds manual fields and a feed with two rows of
\* the code MDT; a file that is no snapshot or no docs/ directory at all with
\* the feed of KMDT and KPIT; feeds without a station of Pennsylvania and a
\* feed that fails; no file and any two rows of the code MDT. The FAA endpoints serve one closure
\* and one delay. The clock stands at its last tick, so that the builders
\* stamp generated_utc with one reading: the time of a run is followed in
\* SpecFaa and SpecStatus.
Init ==
    /\ metar = <<>> /\ fcres = NotCalled /\ net = <<>> /\ call = NoCall
    /\ \E given \in { <<ManualSnapshot, Response(<<RowKMDT, RowMDT>>), Response(<<MRowKMDT>>)>>,
                       <<MissingFile, Response(<<RowMDT, RowKMDT>>), FetchFailed>>,
                       <<NoDirectory, Response(<<RowKMDT, RowKPIT>>), Response(<<MRowKPIT, MRowShort>>)>>,
                       <<OddSnapshot, Response(<<RowKMDT, RowKPIT>>), Response(<<MRowKMDT>>)>>,
                       <<CorruptFile, Response(<<RowKJFK, RowNoLat>>), Response(<<>>)>>,
                       <<JsonNonObject, FetchFailed, FetchFailed>> }
                     \cup {<<MissingFile, Response(<<first, second>>), Response(<<MRowKMDT>>)>> :
                             first, second \in {RowKMDT, RowMDT}} :
         /\ file = given[1]
         /\ remote = Remote(given[2], given[3], Response(<<EvClosureABE, EvDelayMDT>>),
                           Response(<<FcRow(<<"K", "A", "B", "E">>, <<"I", "F", "R">>)>>), EmptyMap)
    /\ runs = EmptyBag
    /\ last = NoRun
    /\ clock = MaxClock

Next == RunBuild \/ RunUpdateMetar \/ RunFetchFaa

Spec == Init /\ [][Next]_vars

\* SpecMerge: update_metar.main run again and again, one run after another,
\* on the snapshot that holds manual fields, while the METAR feed moves on.
\* The station feed is any feed of up to MaxRows rows, or fails.
InitMerge ==
    /\ metar = <<>> /\ fcres = NotCalled /\ net = <<>> /\ call = NoCall
    /\ file = ManualSnapshot
    /\ \E stations \in StationResponses, metars \in MetarResponses :
            remote = Remote(stations, metars, FetchFailed, FetchFailed, EmptyMap)
    /\ runs = EmptyBag
    /\ last = NoRun
    /\ clock = MaxClock

\* Successive runs: the scheduler starts a run when none is in flight.
NextMerge ==
    \/ runs = EmptyBag /\ Start("update_metar")
    \/ Fetch("update_metar")
    \/ Stamp("update_metar")
    \/ MakeDirs("update_metar")
    \/ Open("update_metar")
    \/ Dump("update_metar")
    \/ MetarFeedChanges

SpecMerge == InitMerge /\ [][NextMerge]_vars

InitFaa ==
    /\ metar = <<>> /\ fcres = NotCalled /\ net = <<>> /\ call = NoCall
    /\ file = MissingFile
    /\ \E faa \in FaaResponses, cats \in FcResponses :
            remote = Remote(FetchFailed, FetchFailed, faa, cats, EmptyMap)
    /\ runs = EmptyBag
    /\ last = NoRun
    /\ clock = 0

NextFaa == RunFetchFaa

SpecFaa == InitFaa /\ [][NextFaa]_vars

\* Snapshots update_status.py is run on: no file, files it cannot read, and
\* what the builders wrote, with any body or failure for MDT and a failure or
\* an empty body for PIT.
InitStatus ==
    /\ metar = <<>> /\ fcres = NotCalled /\ net = <<>> /\ call = NoCall
    /\ file \in { MissingFile, CorruptFile, JsonNonObject, ObjectWithoutAirports,
                  ObjectAirportsNotDict, OddSnapshot,
                  build_status_json_pa_main(MissingFile, Response(<<RowKMDT, RowKPIT>>), 0).doc,
                  update_metar_main(ManualSnapshot, Response(<<RowKMDT>>),
                                    Response(<<MRowKMDT>>), 0).doc }
    /\ \E responses \in [DOMAIN file.airports -> StatusResponses] :
          /\ <<"P", "I", "T">> \in DOMAIN responses
                => responses[<<"P", "I", "T">>] \in {FetchError("url"), Body(<<" ", "\n">>)}
          /\ remote = Remote(FetchFailed, FetchFailed, FetchFailed, FetchFailed,
                            responses)
    /\ runs = EmptyBag
    /\ last = NoRun
    /\ clock = 0

NextStatus == RunUpdateStatus

SpecStatus == InitStatus /\ [][NextStatus]_vars

InitClassify ==
    /\ metar \in {ExampleMetar}
                 \cup UNION {{Join(ts) : ts \in [1..k -> Vocabulary]} : k \in 0..MaxTokens}
    /\ fcres = NotCalled
    /\ file = MissingFile /\ remote = NoRemote /\ runs = EmptyBag /\ last = NoRun /\ clock = 0
    /\ net = <<>> /\ call = NoCall

Classify ==
    /\ fcres.outcome = "none"
    /\ fcres' = flight_category_from_metar(metar)
    /\ UNCHANGED <<metar, file, remote, runs, last, clock, net, call>>

NextClassify == Classify

SpecClassify == InitClassify /\ [][NextClassify]_vars

InitFetch ==
    /\ metar = <<>> /\ fcres = NotCalled
    /\ file = MissingFile /\ remote = NoRemote /\ runs = EmptyBag /\ last = NoRun /\ clock = 0
    /\ net \in UNION {[1..k -> {"ok", "timeout", "http_error"}] : k \in 0..MaxAnswers}
    /\ call = NoCall

NextFetch == FetchText \/ RequestsGet

SpecFetch == InitFetch /\ [][NextFetch]_vars

\* SpecRefresh: the two refreshers of docs/status.json, update_status.py and
\* update_metar.py, run in any order on a snapshot a builder wrote, against
\* endpoints that answer or fail.
InitRefresh ==
    /\ metar = <<>> /\ fcres = NotCalled /\ net = <<>> /\ call = NoCall
    /\ file \in { build_status_json_pa_main(MissingFile, Response(<<RowKMDT, RowKPIT>>), 0).doc,
                  update_metar_main(ManualSnapshot, Response(<<RowKMDT>>),
                                    Response(<<MRowKMDT>>), 0).doc }
    /\ \E feeds \in { <<FetchFailed, Response(<<MRowKMDT>>)>>,
                        <<Response(<<RowKMDT, RowKPIT>>), FetchFailed>>,
                        <<Response(<<RowKMDT, RowKPIT>>), Response(<<MRowKMDT>>)>> },
          responses \in { (<<"M", "D", "T">> :> FetchError("other"))
                            @@ (<<"P", "I", "T">> :> Body(ExampleMetar)),
                          (<<"M", "D", "T">> :> Body(<<" ", "\n">>))
                            @@ (<<"P", "I", "T">> :> FetchError("url")) } :
            remote = Remote(feeds[1], feeds[2], FetchFailed, FetchFailed, responses)
    /\ runs = EmptyBag
    /\ last = NoRun
    /\ clock = MaxClock

NextRefresh == RunUpdateStatus \/ RunUpdateMetar

SpecRefresh == InitRefresh /\ [][NextRefresh]_vars

(***************************************************************************)
(* Claims about the classifier (SpecClassify).                             *)
(***************************************************************************)
\* The quantities parsed from the text the classifier was called on.
ParsedVis == parse_visibility_sm(metar)
ParsedCeil == parse_ceiling_ft_agl(metar)

\* The category the worst-first policy of the specification assigns to a
\* visibility v (a fraction, or none) and a ceiling c (feet, or none).
PolicyCategory(v, c) ==
    LET hasV == v.kind = "val"
        hasC == c.kind = "val"
    IN  IF (hasC /\ c.n < 500) \/ (hasV /\ v.n < v.d) THEN "LIFR"
        ELSE IF (hasC /\ c.n >= 500 /\ c.n < 1000)
                \/ (hasV /\ v.n >= v.d /\ v.n < 3 * v.d) THEN "IFR"
        ELSE IF (hasC /\ c.n >= 1000 /\ c.n < 3000)
                \/ (hasV /\ v.n >= 3 * v.d /\ v.n <= 5 * v.d) THEN "MVFR"
        ELSE "VFR"

\* C1: whenever at least one of visibility and ceiling was parsed, the
\* returned category is the first that matches worst-first (LIFR, IFR, MVFR,
\* then VFR), and a missing quantity contributes to no category.
C1_WorstFirstCategory ==
    (/\ fcres.outcome = "return"
     /\ (ParsedVis.kind = "val" \/ ParsedCeil.kind = "val"))
    => fcres.cat = PolicyCategory(ParsedVis, ParsedCeil)

\* A call where the visibility alone says MVFR and the ceiling says LIFR.
C1_Witness ==
    /\ fcres.outcome = "return"
    /\ ParsedVis.kind = "val" /\ ParsedVis.n >= 3 * ParsedVis.d
    /\ ParsedCeil.kind = "val" /\ ParsedCeil.n < 500
    /\ fcres.cat = "LIFR"

\* C2: every call returns a (category, reason) pair, never raising, and the
\* category is UNK when neither quantity can be parsed.
C2_NeverRaises ==
    fcres.outcome # "none"
    => /\ fcres.outcome = "return"
       /\ (ParsedVis.kind = "none" /\ ParsedCeil.kind = "none") => fcres.cat = "UNK"

(***************************************************************************)
(* The registry and the merge of update_metar.main.                        *)
(***************************************************************************)
\* The last run that ended was a run of one of scripts and wrote a snapshot.
WroteBy(scripts) == last.outcome = "wrote" /\ last.script \in scripts

\* The snapshot the last run wrote: the document it handed to json.dump.
\* docs/status.json holds it from the end of the run until a run opens the
\* file, unless another run had the file open while it was written.
Written == last.doc

\* The airports map of the previous snapshot: of docs/status.json as the
\* last run read it.
PreviousAirports ==
    IF /\ last.existing.kind = "json"
       /\ last.existing.top = "object"
       /\ last.existing.airports_kind = "dict"
    THEN last.existing.airports ELSE EmptyMap

\* C3: in the snapshot a run of update_metar.main wrote, every airport that
\* is in the previous snapshot, as the run read it, and in the written one (so
\* in the fresh station list) has the status and the impact_reason the
\* previous snapshot gave it, whatever the METAR feed served. In successive
\* runs the snapshot a run reads is the one on disk until the run opens the
\* file for writing, and so, after any number of runs on the snapshot that
\* held MDT with status IMPACT and impact_reason foo and PIT with status
\* CLOSED, docs/status.json holds MDT, where the station feed lists it, with
\* IMPACT and foo, and PIT, where the feed lists it, with CLOSED.
C3_ManualFieldsPreserved ==
    /\ WroteBy({"update_metar"}) =>
          \A c \in DOMAIN Written.airports \cap DOMAIN PreviousAirports :
              \A key \in {"status", "impact_reason"} \cap DOMAIN PreviousAirports[c].f :
                  Written.airports[c].f[key] = PreviousAirports[c].f[key]
    /\ \A r \in BagToSet(runs) : r.at # "dump" => r.existing = file
    /\ <<"M", "D", "T">> \in DOMAIN file.airports
          => /\ file.airports[<<"M", "D", "T">>].f.status = <<"I", "M", "P", "A", "C", "T">>
             /\ file.airports[<<"M", "D", "T">>].f.impact_reason = <<"f", "o", "o">>
    /\ <<"P", "I", "T">> \in DOMAIN file.airports
          => file.airports[<<"P", "I", "T">>].f.status = <<"C", "L", "O", "S", "E", "D">>

\* C3 witness: a run that follows an earlier run found MDT with status IMPACT
\* and impact_reason foo, the METAR feed gave MDT another flight category, and
\* MDT is written with IMPACT and foo.
C3_Witness ==
    /\ WroteBy({"update_metar"})
    /\ file = Written
    /\ last.existing # ManualSnapshot
    /\ <<"M", "D", "T">> \in DOMAIN PreviousAirports
    /\ <<"M", "D", "T">> \in DOMAIN Written.airports
    /\ Get(PreviousAirports[<<"M", "D", "T">>].f, "status", <<>>) = <<"I", "M", "P", "A", "C", "T">>
    /\ Get(PreviousAirports[<<"M", "D", "T">>].f, "impact_reason", <<>>) = <<"f", "o", "o">>
    /\ Written.airports[<<"M", "D", "T">>].f.status = <<"I", "M", "P", "A", "C", "T">>
    /\ Written.airports[<<"M", "D", "T">>].f.impact_reason = <<"f", "o", "o">>
    /\ Written.airports[<<"M", "D", "T">>].f.flight_category
         # Get(PreviousAirports[<<"M", "D", "T">>].f, "flight_category", <<>>)

\* The codes listed under region r of the written snapshot.
RegionCodes(r) == {Written.regions[r][i].code : i \in DOMAIN Written.regions[r]}

\* C5: in a snapshot written by build_status_json_pa.main, update_metar.main
\* or fetch_faa.main, no code is listed twice in the regions (neither in one
\* region nor in two), and the codes listed are exactly the keys of airports.
C5_CodesMatch ==
    WroteBy({"build_status_json_pa", "update_metar", "fetch_faa"}) =>
        /\ \A r \in DOMAIN Written.regions :
              \A i, j \in DOMAIN Written.regions[r] :
                  Written.regions[r][i].code = Written.regions[r][j].code => i = j
        /\ \A r1, r2 \in DOMAIN Written.regions :
              r1 # r2 => RegionCodes(r1) \cap RegionCodes(r2) = {}
        /\ UNION {RegionCodes(r) : r \in DOMAIN Written.regions} = DOMAIN Written.airports

\* C5 witness: update_metar.main wrote a snapshot from a feed in which two
\* rows of different regions derive the code MDT.
C5_Witness ==
    /\ WroteBy({"update_metar"})
    /\ file = Written
    /\ last.served.stations.ok
    /\ \E i, j \in DOMAIN last.served.stations.rows :
          /\ last.served.stations.rows[i] = RowKMDT
          /\ last.served.stations.rows[j] = RowMDT
    /\ DOMAIN Written.airports = {<<"M", "D", "T">>}

\* The first row of the feed that the builders keep and that derives code c.
FirstKept(rows, c) ==
    Min({i \in 1..Len(rows) : KeptRow(rows[i]) /\ StationRecord(rows[i]).code = c})

\* The snapshot holds, for code c, the ICAO id of the station record first and
\* one station record, first itself, in the region of first.
HoldsOnly(c, first) ==
    /\ c \in DOMAIN Written.airports
    /\ Written.airports[c].f.icao = first.icao
    /\ \E k \in DOMAIN Written.regions[region_from_lon(first.lon)] :
          Written.regions[region_from_lon(first.lon)][k] = first
    /\ \A r \in DOMAIN Written.regions :
          \A k \in DOMAIN Written.regions[r] :
              Written.regions[r][k].code = c =>
                  /\ r = region_from_lon(first.lon)
                  /\ Written.regions[r][k] = first

\* The station record of the first kept row of rows that derives code c.
FirstRecord(rows, c) == StationRecord(rows[FirstKept(rows, c)])

\* C6: after a run of a registry builder, for every kept row of the feed it
\* was served the snapshot holds, for its code, the ICAO id of the first kept
\* row of that code, and one station record, that of the first row (name,
\* ICAO id, coordinates), in the region of the first row.
C6_FirstRowWins ==
    WroteBy({"build_status_json_pa", "update_metar"}) =>
        \A c \in {StationRecord(last.served.stations.rows[i]).code :
                    i \in {j \in 1..Len(last.served.stations.rows) :
                              KeptRow(last.served.stations.rows[j])}} :
            HoldsOnly(c, FirstRecord(last.served.stations.rows, c))

\* C6 witness: the feed is the row of station id " mdt" (Eastern) followed by
\* the row KMDT (Central), and the snapshot lists MDT once, under Eastern,
\* with the record of the first row.
C6_Witness ==
    /\ WroteBy({"build_status_json_pa"})
    /\ file = Written
    /\ last.served.stations = Response(<<RowMDT, RowKMDT>>)
    /\ Written.regions["Eastern"] = <<StationRecord(RowMDT)>>
    /\ Written.regions["Central"] = <<>>

(***************************************************************************)
(* Idempotence of a refresher.                                             *)
(***************************************************************************)
\* C4: when update_status.main is run again on the snapshot it just wrote,
\* the METAR endpoint serving what it served, the regions and the airports map
\* it writes are those of the snapshot it read.
C4_RerunIdentical ==
    (WroteBy({"update_status"}) /\ last.rerun) =>
        /\ Written.regions = last.existing.regions
        /\ Written.airports = last.existing.airports

(***************************************************************************)
(* fetch_faa.py: closures and impacts.                                     *)
(***************************************************************************)
\* The Airport elements of the FAA document that are found under a *_List
\* element and name airport code.
EventsOf(code) ==
    IF ~last.served.faa.ok THEN {}
    ELSE {i \in DOMAIN last.served.faa.rows :
             /\ EndsWith(last.served.faa.rows[i].list_tag, <<"_", "L", "i", "s", "t">>)
             /\ Upper(Strip(last.served.faa.rows[i].arpt)) = code}

\* Those of a closure-typed list.
ClosureEventsOf(code) ==
    {i \in EventsOf(code) : Contains(last.served.faa.rows[i].list_tag, <<"C", "l", "o", "s", "u", "r", "e">>)}

\* The reason an event carries: its Reason text, else its flattened text.
ReasonOf(ev) ==
    IF Strip(ev.reason) # <<>> THEN Strip(ev.reason)
    ELSE CollapseSpaces(Strip(ev.text))

\* C7: after fetch_faa.main, an airport with a closure event is CLOSED and its
\* closure_reason is the reason of a closure event of it, whatever impact
\* events it has and wherever they stand in the feed; an airport with events
\* but no closure event is IMPACT; an airport with no event is OK.
C7_ClosedOverImpact ==
    WroteBy({"fetch_faa"}) =>
        \A code \in DOMAIN Written.airports :
            LET st == Written.airports[code].f
            IN  IF ClosureEventsOf(code) # {}
                THEN /\ st.status = <<"C", "L", "O", "S", "E", "D">>
                     /\ \E i \in ClosureEventsOf(code) :
                           st.closure_reason = ReasonOf(last.served.faa.rows[i])
                ELSE IF EventsOf(code) # {}
                THEN st.status = <<"I", "M", "P", "A", "C", "T">>
                ELSE st.status = <<"O", "K">>

\* C7 witness: the feed holds a delay of ABE and then the closure of ABE with
\* reason "Snow removal"; ABE is CLOSED with that closure_reason.
C7_Witness ==
    /\ WroteBy({"fetch_faa"})
    /\ file = Written
    /\ last.served.faa = Response(<<EvDelayABE, EvClosureABE>>)
    /\ Written.airports[<<"A", "B", "E">>].f.status = <<"C", "L", "O", "S", "E", "D">>
    /\ Written.airports[<<"A", "B", "E">>].f.closure_reason = <<"S", "n", "o", "w", " ", "r", "e", "m", "o", "v", "a", "l">>
    /\ Written.airports[<<"M", "D", "T">>].f.status = <<"O", "K">>

\* The closure-indicating keywords, and a reason text that matches one of
\* them, letter case aside.
ClosureKeywords ==
    {<<"C", "L", "O", "S", "E", "D">>, <<"C", "L", "O", "S", "U", "R", "E">>, <<"S", "N", "O", "W">>, <<"I", "C", "E">>, <<"F", "I", "E", "L", "D">>, <<"R", "U", "N", "W", "A", "Y">>, <<"P", "L", "O", "W">>}

HasClosureKeyword(reason) ==
    \E kw \in ClosureKeywords : Contains(Upper(reason), kw)

\* C8: after fetch_faa.main, an airport with an event, of whatever list, whose
\* reason matches a closure-indicating keyword is CLOSED.
C8_KeywordCloses ==
    WroteBy({"fetch_faa"}) =>
        \A code \in DOMAIN Written.airports :
            (\E i \in EventsOf(code) : HasClosureKeyword(ReasonOf(last.served.faa.rows[i])))
                => Written.airports[code].f.status = <<"C", "L", "O", "S", "E", "D">>

(***************************************************************************)
(* Remote fetches.                                                         *)
(***************************************************************************)
\* C9: a remote fetch that surfaces a failure to its caller has issued at
\* least two GETs.
C9_RetriesBeforeFailing ==
    call.result = "raised" => call.attempts >= 2

(***************************************************************************)
(* The previous snapshot of a refresher.                                   *)
(***************************************************************************)
\* The previous snapshot is missing, is no JSON, is JSON that is no object,
\* or has an airports entry that is no object.
BadPriorFile(f) ==
    \/ f.kind \in {"nodir", "missing", "corrupt"}
    \/ f.top # "object"
    \/ \E c \in DOMAIN f.airports : ~f.airports[c].obj

\* The ways a run ends because of what it read from docs/status.json.
PriorFileExceptions ==
    {"SystemExit(2)", "JSONDecodeError", "AttributeError", "TypeError"}

\* C10: a run of update_status.main on such a previous snapshot writes the
\* file; it does not end on an exception raised by reading the snapshot.
C10_PriorFileNeverFatal ==
    (last.script = "update_status" /\ BadPriorFile(last.existing)) =>
        /\ last.exc \notin PriorFileExceptions
        /\ last.outcome = "wrote"

(***************************************************************************)
(* The refreshers against failing endpoints (SpecRefresh).                 *)
(***************************************************************************)
\* The airports the last run of update_status.main fetched a METAR for.
FetchedCodes == DOMAIN last.served.responses

\* The last run of update_metar.main asked the METAR endpoint: the station
\* feed answered and gave it a station.
MetarAsked == last.gets >= 2

\* A remote fetch of the last run failed.
FetchFailure ==
    \/ /\ last.script = "update_status"
       /\ \E c \in FetchedCodes : ~last.served.responses[c].ok
    \/ /\ last.script = "update_metar"
       /\ \/ last.gets >= 1 /\ ~last.served.stations.ok
          \/ MetarAsked /\ ~last.served.metars.ok

\* C11: a run of a refresher during which a remote fetch fails (a timeout, a
\* reset connection, an HTTP error) still writes the snapshot; in a run of
\* update_status.main the airport whose fetch failed has flight_category UNK
\* or the one it had, and every airport whose fetch succeeded has the fields
\* derived from its METAR.
C11_FetchFailureNeverAborts ==
    (FetchFailure /\ ~BadPriorFile(last.existing)) =>
        /\ last.outcome = "wrote"
        /\ last.script = "update_status" =>
              \A c \in FetchedCodes :
                  IF last.served.responses[c].ok
                  THEN \A key \in {"flight_category", "metar_raw", "metar_time_utc"} :
                          Written.airports[c].f[key]
                            = StatusTurn(last.served.responses[c], last.now).fields[key]
                  ELSE Written.airports[c].f.flight_category
                         \in {<<"U", "N", "K">>, Get(last.existing.airports[c].f, "flight_category", <<"U", "N", "K">>)}

\* The remote feed gave the last run no observation for airport c: the body
\* update_status.main was served for c is empty, or the rows update_metar.main
\* was served hold none of c's station.
NoObservation(c) ==
    \/ /\ last.script = "update_status"
       /\ last.served.responses[c].ok
       /\ Strip(last.served.responses[c].text) = <<>>
    \/ /\ last.script = "update_metar"
       /\ MetarAsked
       /\ last.served.metars.ok
       /\ \A i \in DOMAIN last.served.metars.rows :
             Upper(Strip(last.served.metars.rows[i].station_id)) # Written.airports[c].f.icao

\* C12: after a run of a refresher, an airport of the previous snapshot for
\* which the feed gave no observation has every field its record had, and its
\* flight_category, metar_raw and metar_time_utc are those of the previous
\* snapshot.
C12_NoObservationKeepsPrior ==
    (last.outcome = "wrote" /\ last.script \in {"update_status", "update_metar"}) =>
        \A c \in DOMAIN Written.airports \cap DOMAIN PreviousAirports :
            NoObservation(c) =>
                /\ DOMAIN PreviousAirports[c].f \subseteq DOMAIN Written.airports[c].f
                /\ \A key \in {"flight_category", "metar_raw", "metar_time_utc"}
                                 \cap DOMAIN PreviousAirports[c].f :
                      Written.airports[c].f[key] = PreviousAirports[c].f[key]

(***************************************************************************)
(* The reason text of the classifier (SpecClassify).                       *)
(***************************************************************************)
StartsWith(s, prefix) ==
    Len(s) >= Len(prefix) /\ SubSeq(s, 1, Len(prefix)) = prefix

\* "ceiling <c>ft" for the parsed ceiling.
CeilingPart == <<"c", "e", "i", "l", "i", "n", "g", " ">> \o IntToChars(ParsedCeil.n) \o <<"f", "t">>

\* t is "vis <v>SM", <v> being a decimal numeral of the parsed visibility.
ShowsVisibility(t) ==
    /\ StartsWith(t, <<"v", "i", "s", " ">>)
    /\ Len(t) >= 7
    /\ EndsWith(t, SM)
    /\ LET v == ParseFloat(SubSeq(t, 5, Len(t) - 2))
       IN  v.kind = "val" /\ v.n * ParsedVis.d = ParsedVis.n * v.d

\* reason lists the parsed quantities: the ceiling, then the visibility.
ListsParsedQuantities(reason) ==
    IF ParsedCeil.kind = "val" /\ ParsedVis.kind = "val"
    THEN /\ StartsWith(reason, CeilingPart \o <<",", " ">>)
         /\ ShowsVisibility(SubSeq(reason, Len(CeilingPart) + 3, Len(reason)))
    ELSE IF ParsedCeil.kind = "val" THEN reason = CeilingPart
    ELSE ShowsVisibility(reason)

\* C13: a returned category of LIFR, IFR or MVFR comes with a reason that
\* lists each parsed quantity, as "ceiling <c>ft" then "vis <v>SM" joined by
\* ", "; for "KMDT 270551Z 01008KT 2SM BR OVC008 06/04 A3012" the visibility
\* is 2, the ceiling 800, the category IFR and the reason contains
\* "ceiling 800ft, vis 2SM".
C13_ReasonListsQuantities ==
    /\ (fcres.outcome = "return" /\ fcres.cat \in {"LIFR", "IFR", "MVFR"})
          => ListsParsedQuantities(fcres.reason)
    /\ (metar = ExampleMetar /\ fcres.outcome # "none")
          => /\ ParsedVis = Value(2, 1)
             /\ ParsedCeil = Value(800, 1)
             /\ fcres.outcome = "return"
             /\ fcres.cat = "IFR"
             /\ Contains(fcres.reason, <<"c", "e", "i", "l", "i", "n", "g", " ", "8", "0", "0", "f", "t", ",", " ", "v", "i", "s", " ", "2", "S", "M">>)

\* C13 witness: the classifier was called on the observation of the scenario
\* and returned IFR with the reason "ceiling 800ft, vis 2SM".
C13_Witness ==
    /\ metar = ExampleMetar
    /\ fcres = Returned("IFR", <<"c", "e", "i", "l", "i", "n", "g", " ", "8", "0", "0", "f", "t", ",", " ", "v", "i", "s", " ", "2", "S", "M">>)

(***************************************************************************)
(* The ceiling of an observation (SpecClassify).                           *)
(***************************************************************************)
\* The groups of an observation are its runs of non-space characters.
RECURSIVE GroupEnd(_, _)
GroupEnd(s, i) == IF i > Len(s) \/ IsSpace(s[i]) THEN i ELSE GroupEnd(s, i + 1)

GroupStarts(s) ==
    {i \in 1..Len(s) : ~IsSpace(s[i]) /\ (i = 1 \/ IsSpace(s[i - 1]))}

\* The base height, in hundreds of feet, of the group g when g is the group
\* of a broken, overcast or vertical-visibility layer: BKN, OVC or VV, three
\* digits, and possibly the cloud type CB or TCU; -1 for any other group.
LayerBase(g) ==
    LET k == IF StartsWith(g, <<"V", "V">>) THEN 2
             ELSE IF StartsWith(g, <<"B", "K", "N">>) \/ StartsWith(g, <<"O", "V", "C">>) THEN 3
             ELSE 0
    IN  IF /\ k > 0
           /\ Len(g) >= k + 3
           /\ \A j \in (k + 1)..(k + 3) : g[j] \in Digits
           /\ SubSeq(g, k + 4, Len(g)) \in {<<>>, <<"C", "B">>, <<"T", "C", "U">>}
        THEN IntOf(g, k + 1, k + 4)
        ELSE -1

\* The base heights of the BKN, OVC and VV layers of the observation s.
LayerBases(s) ==
    {LayerBase(SubSeq(s, i, GroupEnd(s, i) - 1)) : i \in GroupStarts(s)} \ {-1}

\* C14: parse_ceiling_ft_agl returns 100 times the smallest base height among
\* the BKN, OVC and VV layer groups of the observation, and None only when
\* the observation has no such group.
C14_LowestLayer ==
    fcres.outcome = "return" =>
        ParsedCeil = IF LayerBases(metar) = {} THEN NoValue
                     ELSE Value(100 * Min(LayerBases(metar)), 1)

(***************************************************************************)
(* The records update_status.main writes (SpecStatus).                     *)
(***************************************************************************)
\* No METAR was obtained for airport c: the fetch failed, or the body is
\* empty once stripped.
NoMetarFor(c) ==
    ~last.served.responses[c].ok \/ Strip(last.served.responses[c].text) = <<>>

\* C15: after update_status.main wrote the snapshot, every airport record has
\* status IMPACT exactly when its flight_category is MVFR, IFR or LIFR, status
\* CLOSED exactly when no METAR was obtained for it, then with flight_category
\* UNK and empty metar_raw and metar_time_utc, and an empty impact_reason
\* exactly when its status is OK.
C15_StatusMatchesCategory ==
    WroteBy({"update_status"}) =>
        \A c \in DOMAIN Written.airports :
            LET r == Written.airports[c].f
            IN  /\ (r.status = <<"I", "M", "P", "A", "C", "T">>)
                      <=> (r.flight_category \in {<<"M", "V", "F", "R">>, <<"I", "F", "R">>, <<"L", "I", "F", "R">>})
                /\ (r.status = <<"C", "L", "O", "S", "E", "D">>) <=> NoMetarFor(c)
                /\ (r.status = <<"C", "L", "O", "S", "E", "D">>)
                      => /\ r.flight_category = <<"U", "N", "K">>
                         /\ r.metar_raw = <<>>
                         /\ r.metar_time_utc = <<>>
                /\ (r.impact_reason = <<>>) <=> (r.status = <<"O", "K">>)

\* C15 witness: a run wrote MDT from an IFR observation (IMPACT, with a
\* reason) and PIT after an HTTP error (CLOSED, UNK, no METAR text), over a
\* snapshot that held both as OK.
C15_Witness ==
    /\ WroteBy({"update_status"})
    /\ file = Written
    /\ DOMAIN Written.airports = {<<"M", "D", "T">>, <<"P", "I", "T">>}
    /\ last.served.responses[<<"P", "I", "T">>] = FetchError("url")
    /\ last.existing.airports[<<"P", "I", "T">>].f.status = <<"O", "K">>
    /\ Written.airports[<<"M", "D", "T">>].f.status = <<"I", "M", "P", "A", "C", "T">>
    /\ Written.airports[<<"M", "D", "T">>].f.flight_category = <<"I", "F", "R">>
    /\ Written.airports[<<"M", "D", "T">>].f.impact_reason = <<"I", "F", "R", ":", " ", "c", "e", "i", "l", "i", "n", "g", " ", "8", "0", "0", "f", "t", ",", " ", "v", "i", "s", " ", "2", "S", "M">>
    /\ Written.airports[<<"P", "I", "T">>].f.status = <<"C", "L", "O", "S", "E", "D">>
    /\ Written.airports[<<"P", "I", "T">>].f.flight_category = <<"U", "N", "K">>

====
